---- MODULE Spec2Model ----
(***************************************************************************)
(* Verification model of the content-indexing core of the textbook RAG     *)
(* backend: the semantic chunker (backend/src/ingestion/chunker.py).       *)
(*                                                                         *)
(* Text is a sequence of characters.  The tokenizer is modelled by what it *)
(* does to such a sequence: every letter is one token and every maximal    *)
(* run of whitespace is one token; decoding concatenates the tokens.       *)
(***************************************************************************)
EXTENDS Integers, Sequences, FiniteSets, TLC

\* ------------------------------------------------------------------ bounds
MaxLen == 10       \* Spec: longest section body, in characters
MaxChunk == 4      \* largest max_chunk_size explored, in tokens
MaxPairLen == 8    \* SpecTwice: most characters in the bodies of one document
MaxSections == 3   \* SpecDocs: most sections in one call of chunk_documents
ScenarioSpread == 10 \* SpecScenario: how far a paragraph may be from 150 tokens
MaxLevel == 2      \* SpecDocs: deepest heading level
MaxDocs == 3       \* SpecBM25, SpecRetrieve: most documents in a corpus
MaxQueryLen == 3   \* SpecBM25: longest query, in characters
MaxTopK == 2       \* SpecRetrieve: largest top_k and retrieval_top_k
MaxRank == 3       \* SpecRRF: longest ranked list
MaxTexts == 3      \* SpecEmbed, SpecRetry: most texts in one call
MaxBatch == 2      \* SpecEmbed: largest batch_size
MaxRetries == 3    \* SpecRetry: largest max_retries
MaxMessages == 3   \* SpecHistory: most stored messages, largest history limits
MaxRequests == 2   \* SpecLimiter: largest max_requests
MaxWindow == 2     \* SpecLimiter: largest window_seconds
MaxTime == 3       \* SpecLimiter: last second of the clock
MaxCalls == 4      \* SpecLimiter: most is_allowed calls
MaxTokens == 3     \* SpecChat: most tokens in one response
MaxCitations == 2  \* SpecChat: most cited chunks in one response

\* ------------------------------------------------------ program constants
DefaultMinChunkSize == 400
DefaultMaxChunkSize == 600
DefaultOverlapSize == 50

\* ------------------------------------------------------------- characters
NL == "\n"
Letter == "a"
Chars == {Letter, NL}
\* Python's None as the content of a malformed section; it stands for every
\* content on which tokenizer.encode raises.
None == << "None" >>

\* Outcome of one chunk_document call: it raised, or it returned a chunk list.
Raised == [raised |-> TRUE, chunks |-> <<>>]
Returned(cs) == [raised |-> FALSE, chunks |-> cs]

IsSpace(c) == c = NL

SetMax(S) == CHOOSE x \in S : \A y \in S : y <= x
SetMin(S) == CHOOSE x \in S : \A y \in S : x <= y

\* All texts of at most n characters.
Texts(n) == UNION { [1..k -> Chars] : k \in 0..n }


RECURSIVE Flatten(_)
Flatten(ss) == IF ss = <<>> THEN <<>> ELSE Head(ss) \o Flatten(Tail(ss))

\* ---------------------------------------------------------------- str.strip
RECURSIVE LStrip(_)
LStrip(t) == IF t = <<>> \/ ~IsSpace(Head(t)) THEN t ELSE LStrip(Tail(t))

RECURSIVE RStrip(_)
RStrip(t) ==
  IF t = <<>> \/ ~IsSpace(t[Len(t)]) THEN t ELSE RStrip(SubSeq(t, 1, Len(t) - 1))

Strip(t) == RStrip(LStrip(t))

\* ---------------------------------------------------------------- tokenizer
\* Index of the last character of the whitespace run that starts at i.
RECURSIVE RunEnd(_, _)
RunEnd(t, i) == IF i < Len(t) /\ IsSpace(t[i + 1]) THEN RunEnd(t, i + 1) ELSE i

\* Index of the first character of the whitespace run that ends at i.
RECURSIVE RunStart(_, _)
RunStart(t, i) == IF i > 1 /\ IsSpace(t[i - 1]) THEN RunStart(t, i - 1) ELSE i

\* tokenizer.encode: a letter is a token, a whitespace run is a token.  The
\* text is cut near its middle at a token boundary (never inside a whitespace
\* run) and the halves are encoded, so that long texts are encoded in few
\* nested steps.
RECURSIVE Encode(_)
Encode(t) ==
  IF t = <<>> THEN <<>>
  ELSE IF Len(t) = 1 THEN << t >>
  ELSE LET m == Len(t) \div 2
           c == IF IsSpace(t[m]) /\ IsSpace(t[m + 1]) THEN RunEnd(t, m) ELSE m
           b == RunStart(t, m)
       IN  IF c < Len(t)
           THEN Encode(SubSeq(t, 1, c)) \o Encode(SubSeq(t, c + 1, Len(t)))
           ELSE IF b = 1 THEN << t >>
           ELSE Encode(SubSeq(t, 1, b - 1)) \o << SubSeq(t, b, Len(t)) >>

\* tokenizer.decode
Decode(tokens) == Flatten(tokens)

count_tokens(text) == Len(Encode(text))

\* A slice of the last n - 1 tokens.
SliceLastButOne(tokens, n) ==
  SubSeq(tokens, SetMax({1, Len(tokens) - n + 2}), Len(tokens))

\* Python's  tokens[-n:]  (with n = 0 the slice is tokens[0:], the whole list).
SliceLast(tokens, n) ==
  IF n = 0 THEN tokens
  ELSE SubSeq(tokens, SetMax({1, Len(tokens) - n + 1}), Len(tokens))

\* ------------------------------------------------------ paragraph splitting
\* Last index of the longest match of the pattern \n\s*\n that starts at i
\* (0 when there is no match at i).
MatchEnd(t, i) ==
  IF t[i] # NL THEN 0
  ELSE LET e == RunEnd(t, i)
           nls == { j \in (i + 1)..e : t[j] = NL }
       IN  IF nls = {} THEN 0 ELSE SetMax(nls)

\* re.split(r'\n\s*\n', text)
RECURSIVE ReSplit(_)
ReSplit(t) ==
  LET starts == { i \in 1..Len(t) : MatchEnd(t, i) > 0 }
  IN  IF starts = {} THEN << t >>
      ELSE LET i == SetMin(starts)
               e == MatchEnd(t, i)
           IN  << SubSeq(t, 1, i - 1) >> \o ReSplit(SubSeq(t, e + 1, Len(t)))

\* [p.strip() for p in pieces if p.strip()]
RECURSIVE StripNonEmpty(_)
StripNonEmpty(ps) ==
  IF ps = <<>> THEN <<>>
  ELSE IF Strip(Head(ps)) = <<>> THEN StripNonEmpty(Tail(ps))
  ELSE << Strip(Head(ps)) >> \o StripNonEmpty(Tail(ps))

split_into_paragraphs(text) == StripNonEmpty(ReSplit(text))

Sep == << NL, NL >>   \* the "\n\n" the chunker puts between paragraphs

\* "\n\n".join(ps)
RECURSIVE JoinParas(_)
JoinParas(ps) ==
  IF ps = <<>> THEN <<>>
  ELSE IF Len(ps) = 1 THEN Head(ps)
  ELSE Head(ps) \o Sep \o JoinParas(Tail(ps))

\* ------------------------------------------------------------ configuration
Cfg(mn, mx, ov) == [min_chunk_size |-> mn, max_chunk_size |-> mx, overlap_size |-> ov]

IsValidCfg(c) == c.overlap_size < c.min_chunk_size /\ c.min_chunk_size < c.max_chunk_size

AllCfgs == { Cfg(mn, mx, ov) : mn \in 0..MaxChunk, mx \in 0..MaxChunk, ov \in 0..MaxChunk }
ValidCfgs == { c \in AllCfgs : IsValidCfg(c) }

\* ------------------------------------------------------------------- inputs
Section(h, l, c, ls) == [heading |-> h, level |-> l, content |-> c, line_start |-> ls]
Document(f, ss) == [file_path |-> f, sections |-> ss]

VARIABLES
  chunker,             \* the SemanticChunker's fields, or None before construction
  documents,           \* argument of chunk_documents
  doc_i,               \* chunk_documents: index of the document being chunked
  all_chunks,          \* chunk_documents: all_chunks
  returned,            \* outcome of each chunk_document call so far
  sec_i,               \* chunk_document: index of the section being chunked
  heading_stack,       \* chunk_document: heading_stack
  chunks,              \* chunk_document: chunks
  paragraphs,          \* _split_large_section: paragraphs
  para_i,              \* _split_large_section: index of the next paragraph
  current_chunk_text,  \* _split_large_section: current_chunk_text
  current_tokens,      \* _split_large_section: current_tokens
  chunk_index,         \* _split_large_section: chunk_index
  section_chunks,      \* _split_large_section: chunks
  pc,                  \* control position
  query,               \* score_documents / retrieve: query
  bm25_documents,      \* score_documents: documents, a list of (id, content)
  points,              \* the points of the collection, in scroll order
  top_k,               \* retrieve: top_k
  retrieval_top_k,     \* retrieve: retrieval_top_k
  use_hybrid,          \* retrieve: use_hybrid
  vector_results,      \* retrieve / reciprocal_rank_fusion: vector_results
  bm25_scores,         \* score_documents: the returned list of (id, score)
  bm25_results,        \* retrieve / reciprocal_rank_fusion: bm25_results
  fused_results,       \* reciprocal_rank_fusion: fused_results
  results,             \* retrieve: the returned list
  scroll_calls,        \* number of qdrant_client.scroll calls made
  score_calls,         \* number of BM25.score_documents calls made
  chapter_filter,      \* retrieve: chapter_filter
  section_filter,      \* retrieve: section_filter
  search_filter,       \* query_filter of the last qdrant_client.search call
  scroll_filter,       \* scroll_filter of the last qdrant_client.scroll call
  embed_calls,         \* number of generate_embedding calls made by retrieve
  search_calls,        \* number of qdrant_client.search calls made
  error,               \* the exception retrieve raised, "none" if none
  stored_chunks,       \* _store_in_qdrant: chunks
  texts,               \* generate_embeddings_batch / _generate_with_retry: texts
  batch_size,          \* EmbeddingGenerator.batch_size
  use_cache,           \* EmbeddingGenerator.use_cache
  cache,               \* EmbeddingCache: the (text, embedding) pairs of the cache files
  uncached_indices,    \* generate_embeddings_batch: uncached_indices
  embeddings,          \* generate_embeddings_batch: embeddings, (index, embedding) pairs
  batch_start,         \* generate_embeddings_batch: batch_start
  embedding_list,      \* generate_embeddings_batch: the returned list
  max_retries,         \* EmbeddingGenerator.max_retries
  attempt,             \* _generate_with_retry: attempt
  provider_log,        \* _generate_with_retry: outcome of each provider call made
  waits,               \* _generate_with_retry: the time.sleep arguments, in seconds
  db_messages,         \* the messages table, in order of created_at
  max_messages,        \* get_conversation_history: max_messages
  history,             \* get_conversation_history: history
  max_history,         \* build_conversation_history: max_history
  conversation,        \* build_conversation_history: conversation
  max_requests,        \* RateLimiter.max_requests
  window_seconds,      \* RateLimiter.window_seconds
  requests,            \* RateLimiter.requests
  now,                 \* datetime.utcnow(), in seconds
  decisions,           \* the is_allowed calls made: session, time, result
  events,              \* event_generator: the events sent so far
  db_state,            \* the database session of the chat request
  llm                  \* StreamingLLM.stream_response: what the provider will do

\* The state of the retrieval service.
retrVars == << query, bm25_documents, points, top_k, retrieval_top_k, use_hybrid,
               vector_results, bm25_scores, bm25_results, fused_results, results,
               scroll_calls, score_calls, chapter_filter, section_filter,
               search_filter, scroll_filter, embed_calls, search_calls, error,
               stored_chunks >>

\* The arguments of retrieve that select the points, and the stored chunks.
argVars == << chapter_filter, section_filter, stored_chunks >>

\* What the vector search hands to its collaborators.
vectorCallVars == << search_filter, embed_calls, search_calls >>

\* The state of the embedding generator.
embVars == << texts, batch_size, use_cache, cache, uncached_indices, embeddings, batch_start,
              embedding_list >>
retryVars == << max_retries, attempt, provider_log, waits >>

\* The state of the conversation history.
histVars == << db_messages, max_messages, history, max_history, conversation >>

\* The state of the rate limiter.
limiterVars == << max_requests, window_seconds, requests, now, decisions >>

\* The state of one chat request.
chatVars == << events, db_state, llm >>

\* The state of the other services.
svcVars == << embVars, retryVars, histVars, limiterVars, chatVars >>

vars == << chunker, documents, doc_i, all_chunks, returned, sec_i, heading_stack,
           chunks, paragraphs, para_i, current_chunk_text, current_tokens,
           chunk_index, section_chunks, pc, retrVars, svcVars >>

docVars == << sec_i, heading_stack, chunks >>
splitVars == << paragraphs, para_i, current_chunk_text, current_tokens,
                chunk_index, section_chunks >>

\* The state of the chunker, its control position aside.
chunkVars == << chunker, documents, doc_i, all_chunks, returned, docVars, splitVars >>

CurDoc == documents[doc_i]
CurSection == CurDoc.sections[sec_i]

\* ----------------------------------------------------------------- helpers
\* PopDeeper that keeps an entry of the same level.
RECURSIVE PopStrictlyDeeper(_, _)
PopStrictlyDeeper(stack, level) ==
  IF stack # <<>> /\ stack[Len(stack)][1] > level
  THEN PopStrictlyDeeper(SubSeq(stack, 1, Len(stack) - 1), level)
  ELSE stack

\* _update_heading_stack: pop the entries at the same or a deeper level, push.
RECURSIVE PopDeeper(_, _)
PopDeeper(stack, level) ==
  IF stack # <<>> /\ stack[Len(stack)][1] >= level
  THEN PopDeeper(SubSeq(stack, 1, Len(stack) - 1), level)
  ELSE stack

update_heading_stack(stack, section) ==
  Append(PopDeeper(stack, section.level), << section.level, section.heading >>)

\* heading_strings = [h[1] for h in heading_path]
HeadingStrings(stack) == [ i \in 1..Len(stack) |-> stack[i][2] ]

\* _get_overlap_text
get_overlap_text(text) ==
  LET tokens == Encode(text)
  IN  IF Len(tokens) <= chunker.overlap_size THEN text
      ELSE Decode(SliceLast(tokens, chunker.overlap_size))

\* _create_chunk
create_chunk(text, heading_path, document, section, index) ==
  [ text |-> text,
    token_count |-> count_tokens(text),
    heading_path |-> heading_path,
    section |-> section.heading,
    chunk_index |-> index,
    source_file |-> document.file_path,
    line_start |-> section.line_start ]

\* ----------------------------------------------------------------- actions
\* BeginChunkDocument that keeps the heading stack of the document before.
BeginKeepingHeadingStack ==
  /\ pc = "docs" /\ doc_i <= Len(documents)
  /\ chunks' = <<>>
  /\ sec_i' = 1
  /\ pc' = "sections"
  /\ UNCHANGED << retrVars, svcVars, chunker, documents, doc_i, all_chunks, returned, heading_stack, splitVars >>

\* chunk_documents: next iteration of  for doc in documents  calls chunk_document.
BeginChunkDocument ==
  /\ pc = "docs" /\ doc_i <= Len(documents)
  /\ chunks' = <<>>
  /\ heading_stack' = <<>>
  /\ sec_i' = 1
  /\ pc' = "sections"
  /\ UNCHANGED << retrVars, svcVars, chunker, documents, doc_i, all_chunks, returned, splitVars >>

\* chunk_document / _chunk_section: count_tokens(None) raises.
SectionRaises ==
  /\ pc = "sections" /\ sec_i <= Len(CurDoc.sections)
  /\ CurSection.content = None
  /\ heading_stack' = update_heading_stack(heading_stack, CurSection)
  /\ pc' = "raised"
  /\ UNCHANGED << retrVars, svcVars, chunker, documents, doc_i, all_chunks, returned, sec_i, chunks, splitVars >>

\* _chunk_section: the section fits in one chunk.
ChunkSmallSection ==
  /\ pc = "sections" /\ sec_i <= Len(CurDoc.sections)
  /\ CurSection.content # None
  /\ count_tokens(CurSection.content) <= chunker.max_chunk_size
  /\ heading_stack' = update_heading_stack(heading_stack, CurSection)
  /\ chunks' = Append(chunks,
        create_chunk(CurSection.content, HeadingStrings(heading_stack'), CurDoc, CurSection, 0))
  /\ sec_i' = sec_i + 1
  /\ UNCHANGED << retrVars, svcVars, chunker, documents, doc_i, all_chunks, returned, splitVars, pc >>

\* EnterSplitLargeSection that keeps the buffer of the section split before.
EnterSplitKeepingBuffer ==
  /\ pc = "sections" /\ sec_i <= Len(CurDoc.sections)
  /\ CurSection.content # None
  /\ count_tokens(CurSection.content) > chunker.max_chunk_size
  /\ heading_stack' = update_heading_stack(heading_stack, CurSection)
  /\ paragraphs' = split_into_paragraphs(CurSection.content)
  /\ para_i' = 1
  /\ chunk_index' = 0
  /\ section_chunks' = <<>>
  /\ pc' = "paras"
  /\ UNCHANGED << retrVars, svcVars, chunker, documents, doc_i, all_chunks, returned, sec_i, chunks,
                  current_chunk_text, current_tokens >>

\* _chunk_section -> _split_large_section: split into paragraphs, reset the buffer.
EnterSplitLargeSection ==
  /\ pc = "sections" /\ sec_i <= Len(CurDoc.sections)
  /\ CurSection.content # None
  /\ count_tokens(CurSection.content) > chunker.max_chunk_size
  /\ heading_stack' = update_heading_stack(heading_stack, CurSection)
  /\ paragraphs' = split_into_paragraphs(CurSection.content)
  /\ para_i' = 1
  /\ current_chunk_text' = <<>>
  /\ current_tokens' = 0
  /\ chunk_index' = 0
  /\ section_chunks' = <<>>
  /\ pc' = "paras"
  /\ UNCHANGED << retrVars, svcVars, chunker, documents, doc_i, all_chunks, returned, sec_i, chunks >>

\* CloseChunk without the test of the minimum size.
CloseChunkBelowMinimum ==
  /\ pc = "paras" /\ para_i <= Len(paragraphs)
  /\ LET para == paragraphs[para_i]
         para_tokens == count_tokens(para)
     IN  /\ current_tokens + para_tokens > chunker.max_chunk_size
         /\ section_chunks' = Append(section_chunks,
               create_chunk(Strip(current_chunk_text), HeadingStrings(heading_stack),
                            CurDoc, CurSection, chunk_index))
         /\ chunk_index' = chunk_index + 1
         /\ current_chunk_text' = get_overlap_text(current_chunk_text) \o Sep \o para
         /\ current_tokens' = count_tokens(current_chunk_text')
  /\ para_i' = para_i + 1
  /\ UNCHANGED << retrVars, svcVars, chunker, documents, doc_i, all_chunks, returned, docVars, paragraphs, pc >>

\* CloseChunk that does not advance chunk_index.
CloseChunkSameIndex ==
  /\ pc = "paras" /\ para_i <= Len(paragraphs)
  /\ LET para == paragraphs[para_i]
         para_tokens == count_tokens(para)
     IN  /\ current_tokens + para_tokens > chunker.max_chunk_size
         /\ current_tokens >= chunker.min_chunk_size
         /\ section_chunks' = Append(section_chunks,
               create_chunk(Strip(current_chunk_text), HeadingStrings(heading_stack),
                            CurDoc, CurSection, chunk_index))
         /\ current_chunk_text' = get_overlap_text(current_chunk_text) \o Sep \o para
         /\ current_tokens' = count_tokens(current_chunk_text')
  /\ para_i' = para_i + 1
  /\ UNCHANGED << retrVars, svcVars, chunker, documents, doc_i, all_chunks, returned, docVars, paragraphs,
                  chunk_index, pc >>

\* _split_large_section: the paragraph does not fit and the buffer meets the
\* minimum: close the buffer as a chunk, seed the next one with the overlap.
CloseChunk ==
  /\ pc = "paras" /\ para_i <= Len(paragraphs)
  /\ LET para == paragraphs[para_i]
         para_tokens == count_tokens(para)
     IN  /\ current_tokens + para_tokens > chunker.max_chunk_size
         /\ current_tokens >= chunker.min_chunk_size
         /\ section_chunks' = Append(section_chunks,
               create_chunk(Strip(current_chunk_text), HeadingStrings(heading_stack),
                            CurDoc, CurSection, chunk_index))
         /\ chunk_index' = chunk_index + 1
         /\ current_chunk_text' = get_overlap_text(current_chunk_text) \o Sep \o para
         /\ current_tokens' = count_tokens(current_chunk_text')
  /\ para_i' = para_i + 1
  /\ UNCHANGED << retrVars, svcVars, chunker, documents, doc_i, all_chunks, returned, docVars, paragraphs, pc >>

\* ForceAppend that cuts the paragraph at max_chunk_size tokens.
ForceAppendCutAtMaximum ==
  /\ pc = "paras" /\ para_i <= Len(paragraphs)
  /\ LET para == paragraphs[para_i]
         para_tokens == count_tokens(para)
         head == Decode(SubSeq(Encode(para), 1, chunker.max_chunk_size))
     IN  /\ current_tokens + para_tokens > chunker.max_chunk_size
         /\ current_tokens < chunker.min_chunk_size
         /\ current_chunk_text' =
               current_chunk_text \o Sep \o (IF para_tokens > chunker.max_chunk_size THEN head ELSE para)
         /\ current_tokens' = current_tokens + para_tokens
  /\ para_i' = para_i + 1
  /\ UNCHANGED << retrVars, svcVars, chunker, documents, doc_i, all_chunks, returned, docVars, paragraphs,
                  chunk_index, section_chunks, pc >>

\* _split_large_section: the paragraph does not fit but the buffer is under
\* the minimum: append the paragraph anyway.
ForceAppend ==
  /\ pc = "paras" /\ para_i <= Len(paragraphs)
  /\ LET para == paragraphs[para_i]
         para_tokens == count_tokens(para)
     IN  /\ current_tokens + para_tokens > chunker.max_chunk_size
         /\ current_tokens < chunker.min_chunk_size
         /\ current_chunk_text' = current_chunk_text \o Sep \o para
         /\ current_tokens' = current_tokens + para_tokens
  /\ para_i' = para_i + 1
  /\ UNCHANGED << retrVars, svcVars, chunker, documents, doc_i, all_chunks, returned, docVars, paragraphs,
                  chunk_index, section_chunks, pc >>

\* AddParagraph without the "\n\n" between the buffer and the paragraph.
AddParagraphNoSeparator ==
  /\ pc = "paras" /\ para_i <= Len(paragraphs)
  /\ LET para == paragraphs[para_i]
         para_tokens == count_tokens(para)
     IN  /\ current_tokens + para_tokens <= chunker.max_chunk_size
         /\ current_chunk_text' = current_chunk_text \o para
         /\ current_tokens' = current_tokens + para_tokens
  /\ para_i' = para_i + 1
  /\ UNCHANGED << retrVars, svcVars, chunker, documents, doc_i, all_chunks, returned, docVars, paragraphs,
                  chunk_index, section_chunks, pc >>

\* _split_large_section: the paragraph fits.
AddParagraph ==
  /\ pc = "paras" /\ para_i <= Len(paragraphs)
  /\ LET para == paragraphs[para_i]
         para_tokens == count_tokens(para)
     IN  /\ current_tokens + para_tokens <= chunker.max_chunk_size
         /\ current_chunk_text' =
               IF current_chunk_text # <<>> THEN current_chunk_text \o Sep \o para ELSE para
         /\ current_tokens' = current_tokens + para_tokens
  /\ para_i' = para_i + 1
  /\ UNCHANGED << retrVars, svcVars, chunker, documents, doc_i, all_chunks, returned, docVars, paragraphs,
                  chunk_index, section_chunks, pc >>

\* _split_large_section after the loop: flush the buffer unless it is blank,
\* return to _chunk_section and chunk_document, which extend their lists.
FlushFinal ==
  /\ pc = "paras" /\ para_i > Len(paragraphs)
  /\ LET final ==
           IF Strip(current_chunk_text) # <<>>
           THEN Append(section_chunks,
                  create_chunk(Strip(current_chunk_text), HeadingStrings(heading_stack),
                               CurDoc, CurSection, chunk_index))
           ELSE section_chunks
     IN  /\ section_chunks' = final
         /\ chunks' = chunks \o final
  /\ sec_i' = sec_i + 1
  /\ pc' = "sections"
  /\ UNCHANGED << retrVars, svcVars, chunker, documents, doc_i, all_chunks, returned, heading_stack,
                  paragraphs, para_i, current_chunk_text, current_tokens, chunk_index >>

\* chunk_document returns; chunk_documents extends all_chunks.
ReturnChunkDocument ==
  /\ pc = "sections" /\ sec_i > Len(CurDoc.sections)
  /\ all_chunks' = all_chunks \o chunks
  /\ returned' = Append(returned, Returned(chunks))
  /\ doc_i' = doc_i + 1
  /\ pc' = "docs"
  /\ UNCHANGED << retrVars, svcVars, chunker, documents, docVars, splitVars >>

\* chunk_documents:  except Exception: log, continue.
CatchAndContinue ==
  /\ pc = "raised"
  /\ returned' = Append(returned, Raised)
  /\ doc_i' = doc_i + 1
  /\ pc' = "docs"
  /\ UNCHANGED << retrVars, svcVars, chunker, documents, all_chunks, docVars, splitVars >>

\* chunk_documents returns all_chunks.
ReturnChunkDocuments ==
  /\ pc = "docs" /\ doc_i > Len(documents)
  /\ pc' = "done"
  /\ UNCHANGED << retrVars, svcVars, chunker, documents, doc_i, all_chunks, returned, docVars, splitVars >>

\* SemanticChunker.__init__: the arguments are stored as given.
Construct ==
  /\ pc = "new"
  /\ \E c \in AllCfgs : chunker' = c
  /\ pc' = "ready"
  /\ UNCHANGED << retrVars, svcVars, documents, doc_i, all_chunks, returned, docVars, splitVars >>

\* A caller passes a document list to chunk_documents.
CallChunkDocuments ==
  /\ pc = "ready"
  /\ \E body \in Texts(MaxChunk + 1) \cup {None} :
        documents' = << Document("d", << Section("A", 1, body, 1) >>) >>
  /\ doc_i' = 1
  /\ all_chunks' = <<>>
  /\ returned' = <<>>
  /\ pc' = "docs"
  /\ UNCHANGED << retrVars, svcVars, chunker, docVars, splitVars >>

Next ==
  \/ BeginChunkDocument
  \/ SectionRaises
  \/ ChunkSmallSection
  \/ EnterSplitLargeSection
  \/ CloseChunk
  \/ ForceAppend
  \/ AddParagraph
  \/ FlushFinal
  \/ ReturnChunkDocument
  \/ CatchAndContinue
  \/ ReturnChunkDocuments

\* The actions a document list takes when no section is oversized.
NextDocs ==
  \/ BeginChunkDocument
  \/ SectionRaises
  \/ ChunkSmallSection
  \/ ReturnChunkDocument
  \/ CatchAndContinue
  \/ ReturnChunkDocuments

NextConstruct == Construct \/ CallChunkDocuments \/ Next

\* The retrieval service in the state given by the record r.
EmbedderIdle ==
  /\ texts = << >> /\ batch_size = 1 /\ use_cache = FALSE /\ cache = {}
  /\ uncached_indices = << >>
  /\ embeddings = << >> /\ batch_start = 0 /\ embedding_list = << >>
RetryIdle == max_retries = 0 /\ attempt = 0 /\ provider_log = << >> /\ waits = << >>
HistoryIdle ==
  /\ db_messages = << >> /\ max_messages = 0 /\ history = << >>
  /\ max_history = 0 /\ conversation = << >>
LimiterIdle ==
  /\ max_requests = 0 /\ window_seconds = 0 /\ requests = << >> /\ now = 0
  /\ decisions = << >>
ChatIdle ==
  /\ events = << >>
  /\ db_state = [ status |-> "open", user_saved |-> FALSE, assistant_saved |-> FALSE ]
  /\ llm = [ tokens |-> 0, citations |-> 0, raising |-> "none" ]

\* The fields of the retrieval service.
RetrieverFields(r) ==
  /\ query = r.query
  /\ bm25_documents = r.bm25_documents
  /\ points = r.points
  /\ top_k = r.top_k
  /\ retrieval_top_k = r.retrieval_top_k
  /\ use_hybrid = r.use_hybrid
  /\ vector_results = r.vector_results
  /\ bm25_scores = r.bm25_scores
  /\ bm25_results = r.bm25_results
  /\ fused_results = r.fused_results
  /\ results = r.results
  /\ scroll_calls = r.scroll_calls
  /\ score_calls = r.score_calls
  /\ chapter_filter = r.chapter_filter
  /\ section_filter = r.section_filter
  /\ search_filter = r.search_filter
  /\ scroll_filter = r.scroll_filter
  /\ embed_calls = r.embed_calls
  /\ search_calls = r.search_calls
  /\ error = r.error
  /\ stored_chunks = r.stored_chunks

\* The retrieval service in state r, no other service in use.
RetrieverIs(r) ==
  /\ RetrieverFields(r)
  /\ EmbedderIdle /\ RetryIdle /\ HistoryIdle /\ LimiterIdle /\ ChatIdle

\* An Optional[str]: None, or the string.
NoString == << >>
Some(s) == << s >>

\* The retrieval service before any call.
IdleRetriever ==
  [ query |-> <<>>, bm25_documents |-> <<>>, points |-> <<>>, top_k |-> 0,
    retrieval_top_k |-> 0, use_hybrid |-> FALSE, vector_results |-> <<>>,
    bm25_scores |-> <<>>, bm25_results |-> <<>>, fused_results |-> <<>>,
    results |-> <<>>, scroll_calls |-> 0, score_calls |-> 0,
    chapter_filter |-> NoString, section_filter |-> NoString,
    search_filter |-> << >>, scroll_filter |-> << >>, embed_calls |-> 0,
    search_calls |-> 0, error |-> "none", stored_chunks |-> << >> ]

RetrieverIdle == RetrieverIs(IdleRetriever)

\* State in which chunk_documents(docs) is at position p on a chunker with
\* fields c, whatever the retrieval service is doing.
ChunkerAt(c, docs, p) ==
  /\ chunker = c
  /\ documents = docs
  /\ doc_i = 1
  /\ all_chunks = <<>>
  /\ returned = <<>>
  /\ sec_i = 1
  /\ heading_stack = <<>>
  /\ chunks = <<>>
  /\ paragraphs = <<>>
  /\ para_i = 1
  /\ current_chunk_text = <<>>
  /\ current_tokens = 0
  /\ chunk_index = 0
  /\ section_chunks = <<>>
  /\ pc = p

\* State in which chunk_documents(docs) is at position p on a chunker with fields c.
Called(c, docs, p) == RetrieverIdle /\ ChunkerAt(c, docs, p)

Bodies(n) == Texts(n) \cup {None}
BodyLen(b) == IF b = None THEN 0 ELSE Len(b)

\* Spec: one document of one section, every body of at most MaxLen characters
\* (or None), every valid configuration up to MaxChunk.
Init ==
  \E c \in ValidCfgs, body \in Bodies(MaxLen) :
     Called(c, << Document("d", << Section("A", 1, body, 1) >>) >>, "docs")

Spec == Init /\ [][Next]_vars

\* The bodies the parser delivers: stripped text (or content that raises).
ParsedBodies(n) == { b \in Texts(n) : Strip(b) = b } \cup {None}

\* SpecTwice: one parsed document of one or two sections whose bodies have at
\* most MaxPairLen characters together, chunked twice by the same chunker,
\* directly after itself or with another document in between.
PairLevels == { << 1, 1 >>, << 1, 2 >>, << 2, 1 >> }
PairDocs ==
  { Document("d", << Section("A", 1, b, 1) >>) : b \in ParsedBodies(MaxPairLen) }
  \cup
  UNION { { Document("d", << Section("A", l[1], b1, 1), Section("B", l[2], b2, 2) >>) :
              l \in PairLevels, b2 \in ParsedBodies(MaxPairLen - BodyLen(b1)) } :
          b1 \in ParsedBodies(MaxPairLen) }

\* The document chunked in between: a nested, oversized section that leaves a
\* heading stack of two entries and a non-empty buffer behind.
OtherDoc ==
  Document("e", << Section("B", 1, << Letter >>, 1),
                   Section("A", 2, << Letter, Letter, Letter, Letter, NL, NL, Letter >>, 2) >>)

\* The configurations under which a body of three tokens is already oversized.
PairCfgs == { c \in ValidCfgs : c.max_chunk_size <= 3 }

InitTwice ==
  \E c \in PairCfgs, d \in PairDocs :
     \E docs \in { << d, d >>, << d, OtherDoc, d >> } : Called(c, docs, "docs")

SpecTwice == InitTwice /\ [][Next]_vars

\* SpecDocs: every list of documents with at most MaxSections sections in
\* all, one-token or malformed bodies, chunked with the default configuration.
Headings == {"A", "B"}
DocSections ==
  { Section(h, l, b, 0) : h \in Headings, l \in 1..MaxLevel, b \in { << Letter >>, None } }

\* Number the sections of a document as the parser does (increasing lines).
Numbered(ss) == [ i \in 1..Len(ss) |-> [ ss[i] EXCEPT !.line_start = i ] ]

\* The document list spelled by a sequence of (section, starts-a-document) pairs.
RECURSIVE Grouped(_, _)
Grouped(items, docs) ==
  IF items = <<>> THEN [ i \in 1..Len(docs) |-> Document("d", Numbered(docs[i])) ]
  ELSE IF Head(items)[2] \/ docs = <<>>
       THEN Grouped(Tail(items), Append(docs, << Head(items)[1] >>))
       ELSE Grouped(Tail(items),
              [ docs EXCEPT ![Len(docs)] = Append(docs[Len(docs)], Head(items)[1]) ])

DocItems(k) == { it \in [1..k -> DocSections \X BOOLEAN] : k = 0 \/ it[1][2] }

DefaultCfg == Cfg(DefaultMinChunkSize, DefaultMaxChunkSize, DefaultOverlapSize)

InitDocs ==
  \E k \in 0..MaxSections : \E items \in DocItems(k) :
     Called(DefaultCfg, Grouped(items, <<>>), "docs")

SpecDocs == InitDocs /\ [][NextDocs]_vars

\* SpecScenario: the default chunker on a document of two level-1 sections,
\* the first of 300 tokens, the second of 1400 tokens in nine paragraphs of
\* about 150 tokens: the first m paragraphs have a tokens each, the others
\* share the remaining tokens evenly (eight "\n\n" separators are 8 tokens).
Letters(n) == [ i \in 1..n |-> Letter ]

ScenarioSizes(a, m) ==
  LET rest == (1400 - 8) - m * a
      q == rest \div (9 - m)
      r == rest % (9 - m)
  IN  [ i \in 1..9 |-> IF i <= m THEN a ELSE IF i <= m + r THEN q + 1 ELSE q ]

About150(sizes) ==
  \A i \in 1..Len(sizes) :
    sizes[i] >= 150 - ScenarioSpread /\ sizes[i] <= 150 + ScenarioSpread

ScenarioDoc(sizes) ==
  Document("d", << Section("A", 1, Letters(300), 1),
                   Section("B", 1, JoinParas([ i \in 1..Len(sizes) |-> Letters(sizes[i]) ]), 2) >>)

InitScenario ==
  \E a \in (150 - ScenarioSpread)..(150 + ScenarioSpread), m \in 3..5 :
     /\ About150(ScenarioSizes(a, m))
     /\ Called(DefaultCfg, << ScenarioDoc(ScenarioSizes(a, m)) >>, "docs")

\* The actions the scenario takes: no section raises, none is force-appended.
NextScenario ==
  \/ BeginChunkDocument
  \/ ChunkSmallSection
  \/ EnterSplitLargeSection
  \/ CloseChunk
  \/ AddParagraph
  \/ FlushFinal
  \/ ReturnChunkDocument
  \/ ReturnChunkDocuments

SpecScenario == InitScenario /\ [][NextScenario]_vars

\* SpecConstruct: from construction with any arguments to a chunk_documents call.
InitConstruct == Called(None, <<>>, "new")

SpecConstruct == InitConstruct /\ [][NextConstruct]_vars

\* -------------------------------------------------------------------- BM25
\* services/retrieval.py.  A text is a sequence of characters: the letters
\* a, b, c, the capital B, the blank and the full stop.  Scores are floats in
\* the code; here they are fixed-point numbers, in millionths.
Scale == 1000 * 1000

\* BM25.__init__: k1 = 1.5 and b = 0.75, as 3/2 and 3/4.
K1Halves == 3
BQuarters == 3

Blank == " "
WordChars == {"a", "b", "c"}

\* str.lower
Lower(ch) == IF ch = "B" THEN "b" ELSE ch

\* re.sub(r'[^\w\s]', ' ', text) after lower(): what is neither a word
\* character nor whitespace becomes a blank.
Clean(text) ==
  [ i \in 1..Len(text) |->
      IF Lower(text[i]) \in WordChars THEN Lower(text[i]) ELSE Blank ]

\* str.split(): the maximal runs of non-blank characters.
RECURSIVE SplitWords(_, _)
SplitWords(text, word) ==
  IF text = <<>> THEN (IF word = <<>> THEN <<>> ELSE << word >>)
  ELSE IF Head(text) = Blank
       THEN (IF word = <<>> THEN <<>> ELSE << word >>) \o SplitWords(Tail(text), <<>>)
       ELSE SplitWords(Tail(text), Append(word, Head(text)))

\* BM25.tokenize
tokenize(text) == SplitWords(Clean(text), <<>>)

\* Number of occurrences of x in the sequence seq.
Count(x, seq) == Cardinality({ i \in 1..Len(seq) : seq[i] = x })

RECURSIVE SumSeq(_)
SumSeq(ns) == IF ns = <<>> THEN 0 ELSE Head(ns) + SumSeq(Tail(ns))

\* Scale * atanh(n/d) from term j on, p being Scale * (n/d)^(2j+1).
RECURSIVE AtanhSeries(_, _, _, _)
AtanhSeries(p, n, d, j) ==
  IF p = 0 THEN 0
  ELSE p \div (2 * j + 1) + AtanhSeries((p * n * n) \div (d * d), n, d, j + 1)

\* np.log(num / den) in millionths, for num, den > 0:
\* ln x = 2 atanh((x - 1) / (x + 1)), and ln x = - ln (1 / x) for x < 1.
LnScaled(num, den) ==
  LET hi == IF num >= den THEN num ELSE den
      lo == IF num >= den THEN den ELSE num
      v == 2 * AtanhSeries((Scale * (hi - lo)) \div (hi + lo), hi - lo, hi + lo, 0)
  IN  IF num >= den THEN v ELSE 0 - v

\* ZeroScores in the reverse of the corpus order.
ZeroScoresReversed(docs) == [ i \in 1..Len(docs) |-> << docs[Len(docs) + 1 - i][1], 0 >> ]

\* score_documents on an empty query: every document with score 0.0, as given.
ZeroScores(docs) == [ i \in 1..Len(docs) |-> << docs[i][1], 0 >> ]

\* A descending sort that reverses the order of equal scores.
SortDescendingTiesReversed(scores) ==
  LET n == Len(scores)
      place(i) == Cardinality({ j \in 1..n : scores[j][2] > scores[i][2] })
                  + Cardinality({ j \in (i + 1)..n : scores[j][2] = scores[i][2] }) + 1
  IN  [ r \in 1..n |-> scores[CHOOSE i \in 1..n : place(i) = r] ]

\* list.sort(key=score, reverse=True): descending and stable.
SortDescending(scores) ==
  LET n == Len(scores)
      place(i) == Cardinality({ j \in 1..n : scores[j][2] > scores[i][2] })
                  + Cardinality({ j \in 1..(i - 1) : scores[j][2] = scores[i][2] }) + 1
  IN  [ r \in 1..n |-> scores[CHOOSE i \in 1..n : place(i) = r] ]

\* score_documents, lines 127-169: the (id, score) list before it is sorted.
\* The ids of the documents are distinct, as the ids of points are.
BM25Scores(q, docs) ==
  LET query_tokens == tokenize(q)
      doc_tokens == [ i \in 1..Len(docs) |-> tokenize(docs[i][2]) ]
      num_docs == Len(docs)
      total_length == SumSeq([ i \in 1..num_docs |-> Len(doc_tokens[i]) ])
      \* df[token] += 1 for every document and every occurrence of the token in the query
      df(token) == Count(token, query_tokens)
                   * Cardinality({ i \in 1..num_docs : Count(token, doc_tokens[i]) > 0 })
      \* (N - df + 0.5) / (df + 0.5) + 1  =  (2N + 2) / (2 df + 1)
      idf(token) == LnScaled(2 * num_docs + 2, 2 * df(token) + 1)
      \* idf * tf * (k1 + 1) / (tf + k1 * (1 - b + b * doc_length / avg_doc_length)),
      \* numerator and denominator multiplied by 8 * total_length
      term(token, i) ==
        LET term_freq == Count(token, doc_tokens[i])
            doc_length == Len(doc_tokens[i])
        IN  IF term_freq = 0 THEN 0
            ELSE (idf(token) * term_freq * (K1Halves + 2) * 4 * total_length)
                 \div (8 * term_freq * total_length
                       + K1Halves * ((4 - BQuarters) * total_length
                                     + BQuarters * doc_length * num_docs))
  IN  [ i \in 1..num_docs |->
         << docs[i][1],
            SumSeq([ j \in 1..Len(query_tokens) |-> term(query_tokens[j], i) ]) >> ]

\* BM25.score_documents
score_documents(q, docs) ==
  IF docs = <<>> THEN <<>>
  ELSE IF tokenize(q) = <<>> THEN ZeroScores(docs)
  ELSE SortDescending(BM25Scores(q, docs))

\* score_documents, line 119: an empty corpus gives an empty list.
ScoreNoDocuments ==
  /\ pc = "score"
  /\ bm25_documents = <<>>
  /\ bm25_scores' = <<>>
  /\ score_calls' = score_calls + 1
  /\ pc' = "scored"
  /\ UNCHANGED << chunkVars, svcVars, argVars, vectorCallVars, scroll_filter, error,
                  query, bm25_documents, points, top_k, retrieval_top_k,
                  use_hybrid, vector_results, bm25_results, fused_results, results,
                  scroll_calls >>

\* score_documents, lines 123-125: a query without tokens gives every document 0.0.
ScoreEmptyQuery ==
  /\ pc = "score"
  /\ bm25_documents # <<>>
  /\ tokenize(query) = <<>>
  /\ bm25_scores' = ZeroScores(bm25_documents)
  /\ score_calls' = score_calls + 1
  /\ pc' = "scored"
  /\ UNCHANGED << chunkVars, svcVars, argVars, vectorCallVars, scroll_filter, error,
                  query, bm25_documents, points, top_k, retrieval_top_k,
                  use_hybrid, vector_results, bm25_results, fused_results, results,
                  scroll_calls >>

\* score_documents, lines 127-173: score every document, sort, return.
ScoreDocuments ==
  /\ pc = "score"
  /\ bm25_documents # <<>>
  /\ tokenize(query) # <<>>
  /\ bm25_scores' = SortDescending(BM25Scores(query, bm25_documents))
  /\ score_calls' = score_calls + 1
  /\ pc' = "scored"
  /\ UNCHANGED << chunkVars, svcVars, argVars, vectorCallVars, scroll_filter, error,
                  query, bm25_documents, points, top_k, retrieval_top_k,
                  use_hybrid, vector_results, bm25_results, fused_results, results,
                  scroll_calls >>

NextBM25 == ScoreNoDocuments \/ ScoreEmptyQuery \/ ScoreDocuments

\* The text of a list of words.
RECURSIVE Words(_)
Words(ws) ==
  IF ws = <<>> THEN <<>>
  ELSE IF Len(ws) = 1 THEN << Head(ws) >>
  ELSE << Head(ws), Blank >> \o Words(Tail(ws))

\* The contents of the documents: none, one word, two words, a repeated word,
\* a word no query has.
DocTexts ==
  { <<>>, Words(<< "a" >>), Words(<< "a", "b" >>), Words(<< "a", "a", "c" >>), Words(<< "c" >>) }

\* The corpora of at most n documents; the id of a document is its position.
Corpora(n) ==
  UNION { { [ i \in 1..k |-> << i, contents[i] >> ] : contents \in [1..k -> DocTexts] } : k \in 0..n }

QueryChars == {"a", "B", Blank, "."}
Queries(n) == UNION { [1..k -> QueryChars] : k \in 0..n }

\* SpecBM25: score_documents on every query of at most MaxQueryLen characters
\* and every corpus of at most MaxDocs documents.
InitBM25 ==
  \E q \in Queries(MaxQueryLen), docs \in Corpora(MaxDocs) :
     /\ ChunkerAt(None, <<>>, "score")
     /\ RetrieverIs([ IdleRetriever EXCEPT !.query = q, !.bm25_documents = docs ])

SpecBM25 == InitBM25 /\ [][NextBM25]_vars

\* --------------------------------------------------------------- retrieval
\* RetrievedChunk: the fields the retrieval service reads and writes.
RetrievedChunk(id, content, score) ==
  [ chunk_id |-> id, content |-> content, score |-> score ]

\* A point of the collection: its id and its payload. A payload is a record,
\* or the empty record when the point was stored without content.
Point(id, payload) == [ id |-> id, payload |-> payload ]
NoPayload == << >>

\* point.payload.get("content", "")
PayloadContent(p) ==
  IF "content" \in DOMAIN p.payload THEN p.payload.content ELSE << >>

\* s[:k] with one more element.
PrefixPlusOne(s, k) == SubSeq(s, 1, IF k + 1 < Len(s) THEN k + 1 ELSE Len(s))

\* s[:k] for k >= 0.
Prefix(s, k) == SubSeq(s, 1, IF k < Len(s) THEN k ELSE Len(s))

ReverseSeq(s) == [ i \in 1..Len(s) |-> s[Len(s) + 1 - i] ]

\* The similarity the vector index reports for its i-th hit, in hundredths:
\* hits come in non-increasing similarity.
Similarity(i) == 100 - (10 * i)

\* if chapter_filter: ... if section_filter: ... - None and "" add no condition.
Truthy(s) == s # NoString /\ s[1] # ""

\* The conditions a search puts on the points; without a condition the
\* query_filter is None.
FirstFilterOnly(chapter, section) ==
  IF Truthy(chapter) THEN << [ key |-> "chapter", value |-> chapter[1] ] >> ELSE << >>

\* vector_search, lines 241-254, and bm25_search, lines 307-320: query_filter.
QueryFilter(chapter, section) ==
  (IF Truthy(chapter) THEN << [ key |-> "chapter", value |-> chapter[1] ] >> ELSE << >>)
  \o (IF Truthy(section) THEN << [ key |-> "section", value |-> section[1] ] >> ELSE << >>)

\* Filter(must=conditions) on a point: every condition matches its payload.
Matches(p, filter) ==
  \A i \in 1..Len(filter) :
     /\ filter[i].key \in DOMAIN p.payload
     /\ p.payload[filter[i].key] = filter[i].value

\* The points the collection answers with under a filter, in scroll order.
Matching(ps, filter) == SelectSeq(ps, LAMBDA p : Matches(p, filter))

\* vector_search, lines 216-285: the query is embedded and the index answers
\* with at most top_k hits under the filter, the most similar first; each hit
\* becomes a chunk with the hit's score.
VectorSearch ==
  /\ pc = "retrieve"
  /\ embed_calls' = embed_calls + 1
  /\ search_calls' = search_calls + 1
  /\ search_filter' = QueryFilter(chapter_filter, section_filter)
  /\ \E hits \in { Matching(points, search_filter'), ReverseSeq(Matching(points, search_filter')) } :
     \E n \in 0..Len(Prefix(hits, retrieval_top_k)) :
        vector_results' = [ i \in 1..n |->
                             RetrievedChunk(hits[i].id, PayloadContent(hits[i]), Similarity(i)) ]
  /\ pc' = "vector_done"
  /\ UNCHANGED << chunkVars, svcVars, argVars, scroll_filter, error,
                  query, bm25_documents, points, top_k, retrieval_top_k,
                  use_hybrid, bm25_scores, bm25_results, fused_results, results,
                  scroll_calls, score_calls >>

\* vector_search, lines 236-237 and 283-285, retrieve, lines 509-511:
\* generate_embedding raises; the error is logged and raised again.
EmbeddingFails ==
  /\ pc = "retrieve"
  /\ embed_calls' = embed_calls + 1
  /\ error' = "embedding"
  /\ pc' = "raised"
  /\ UNCHANGED << chunkVars, svcVars, argVars, search_filter, search_calls, scroll_filter,
                  query, bm25_documents, points, top_k, retrieval_top_k,
                  use_hybrid, vector_results, bm25_scores, bm25_results, fused_results,
                  results, scroll_calls, score_calls >>

\* vector_search, lines 257-263 and 283-285, retrieve, lines 509-511:
\* qdrant_client.search raises; the error is logged and raised again.
SearchFails ==
  /\ pc = "retrieve"
  /\ embed_calls' = embed_calls + 1
  /\ search_calls' = search_calls + 1
  /\ search_filter' = QueryFilter(chapter_filter, section_filter)
  /\ error' = "search"
  /\ pc' = "raised"
  /\ UNCHANGED << chunkVars, svcVars, argVars, scroll_filter,
                  query, bm25_documents, points, top_k, retrieval_top_k,
                  use_hybrid, vector_results, bm25_scores, bm25_results, fused_results,
                  results, scroll_calls, score_calls >>

\* retrieve, lines 476-477: without hybrid search the vector results are cut
\* to top_k and returned.
ReturnVectorOnly ==
  /\ pc = "vector_done"
  /\ ~use_hybrid
  /\ results' = Prefix(vector_results, top_k)
  /\ pc' = "returned"
  /\ UNCHANGED << chunkVars, svcVars, argVars, vectorCallVars, scroll_filter, error,
                  query, bm25_documents, points, top_k, retrieval_top_k,
                  use_hybrid, vector_results, bm25_scores, bm25_results, fused_results,
                  scroll_calls, score_calls >>

\* bm25_search, lines 307-336: the scroll finds no point under the filter; the
\* search returns [].
ScrollNoPoints ==
  /\ pc = "vector_done"
  /\ use_hybrid
  /\ scroll_filter' = QueryFilter(chapter_filter, section_filter)
  /\ Matching(points, scroll_filter') = << >>
  /\ scroll_calls' = scroll_calls + 1
  /\ bm25_results' = << >>
  /\ pc' = "fuse"
  /\ UNCHANGED << chunkVars, svcVars, argVars, vectorCallVars, error,
                  query, bm25_documents, points, top_k, retrieval_top_k,
                  use_hybrid, vector_results, bm25_scores, fused_results, results,
                  score_calls >>

\* bm25_search, lines 307-342: the scroll fetches the points under the filter;
\* their ids and contents are the documents handed to score_documents.
ScrollPoints ==
  /\ pc = "vector_done"
  /\ use_hybrid
  /\ scroll_filter' = QueryFilter(chapter_filter, section_filter)
  /\ Matching(points, scroll_filter') # << >>
  /\ scroll_calls' = scroll_calls + 1
  /\ LET fetched == Matching(points, scroll_filter')
     IN  bm25_documents' = [ i \in 1..Len(fetched) |->
                              << fetched[i].id, PayloadContent(fetched[i]) >> ]
  /\ pc' = "score"
  /\ UNCHANGED << chunkVars, svcVars, argVars, vectorCallVars, error,
                  query, points, top_k, retrieval_top_k, use_hybrid,
                  vector_results, bm25_scores, bm25_results, fused_results, results,
                  score_calls >>

\* A failing scroll after which retrieve goes on with no lexical result.
ScrollFailsVectorOnly ==
  /\ pc = "vector_done"
  /\ use_hybrid
  /\ scroll_filter' = QueryFilter(chapter_filter, section_filter)
  /\ scroll_calls' = scroll_calls + 1
  /\ error' = "scroll"
  /\ bm25_results' = << >>
  /\ pc' = "fuse"
  /\ UNCHANGED << chunkVars, svcVars, argVars, vectorCallVars,
                  query, bm25_documents, points, top_k, retrieval_top_k,
                  use_hybrid, vector_results, bm25_scores, fused_results,
                  results, score_calls >>

\* bm25_search, lines 324-330 and 368-370, retrieve, lines 509-511:
\* qdrant_client.scroll raises; the error is logged and raised again.
ScrollFails ==
  /\ pc = "vector_done"
  /\ use_hybrid
  /\ scroll_filter' = QueryFilter(chapter_filter, section_filter)
  /\ scroll_calls' = scroll_calls + 1
  /\ error' = "scroll"
  /\ pc' = "raised"
  /\ UNCHANGED << chunkVars, svcVars, argVars, vectorCallVars,
                  query, bm25_documents, points, top_k, retrieval_top_k,
                  use_hybrid, vector_results, bm25_scores, bm25_results, fused_results,
                  results, score_calls >>

\* The first k scores, those not below zero.
NonNegativeOfFirst(scores, k) == SelectSeq(Prefix(scores, k), LAMBDA s : s[2] >= 0)

\* bm25_search, lines 348-350: of bm25_scores[:top_k], the scores above zero.
PositiveOfFirst(scores, k) == SelectSeq(Prefix(scores, k), LAMBDA s : s[2] > 0)

\* point_map[chunk_id]
PointOf(ps, id) == ps[SetMax({ i \in 1..Len(ps) : ps[i].id = id })]

\* The chunk a dict built over the list holds for the id: the last one.
ChunkWithId(list, id) == list[SetMax({ i \in 1..Len(list) : list[i].chunk_id = id })]

\* bm25_search, lines 345-366: the chunks of the kept scores.
KeepPositive ==
  /\ pc = "scored"
  /\ LET kept == PositiveOfFirst(bm25_scores, retrieval_top_k)
     IN  bm25_results' = [ i \in 1..Len(kept) |->
                            RetrievedChunk(kept[i][1],
                                           PayloadContent(PointOf(Matching(points, scroll_filter), kept[i][1])),
                                           kept[i][2]) ]
  /\ pc' = "fuse"
  /\ UNCHANGED << chunkVars, svcVars, argVars, vectorCallVars, scroll_filter, error,
                  query, bm25_documents, points, top_k, retrieval_top_k,
                  use_hybrid, vector_results, bm25_scores, fused_results, results,
                  scroll_calls, score_calls >>

\* ---------------------------------------------------- reciprocal rank fusion
RRF_K == 60

\* Fractions << numerator, denominator >> with positive denominators stand for
\* the float scores of the fusion.
FracAdd(x, y) == << (x[1] * y[2]) + (y[1] * x[2]), x[2] * y[2] >>
FracLess(x, y) == x[1] * y[2] < y[1] * x[2]
FracEq(x, y) == x[1] * y[2] = y[1] * x[2]

ChunkIdsOf(list) == { list[i].chunk_id : i \in 1..Len(list) }

\* Ranks counted from one.
RankFromOne(list, id) == SetMax({ i \in 1..Len(list) : list[i].chunk_id = id })

\* {chunk.chunk_id: idx for idx, chunk in enumerate(list)}[id]
RankOf(list, id) == SetMax({ i \in 1..Len(list) : list[i].chunk_id = id }) - 1

\* The ids of both lists only.
CommonChunkIds(vs, bs) == ChunkIdsOf(vs) \cap ChunkIdsOf(bs)

\* all_chunk_ids
AllChunkIds(vs, bs) == ChunkIdsOf(vs) \cup ChunkIdsOf(bs)

\* chunk_map[id]: the chunk of the BM25 list when it has the id.
ChunkMap(vs, bs, id) ==
  IF id \in ChunkIdsOf(bs) THEN ChunkWithId(bs, id) ELSE ChunkWithId(vs, id)

\* rrf_scores[id]
RRFScore(vs, bs, id) ==
  LET zero == << 0, 1 >>
      with_vector == IF id \in ChunkIdsOf(vs)
                     THEN FracAdd(zero, << 1, RRF_K + RankOf(vs, id) >>) ELSE zero
  IN  IF id \in ChunkIdsOf(bs)
      THEN FracAdd(with_vector, << 1, RRF_K + RankOf(bs, id) >>) ELSE with_vector

\* Orders in which no score is below the next.
AscendingOrders(vs, bs) ==
  LET ids == AllChunkIds(vs, bs)
      n == Cardinality(ids)
  IN  { s \in [1..n -> ids] :
          /\ \A i, j \in 1..n : i # j => s[i] # s[j]
          /\ \A i, j \in 1..n :
               i < j => ~FracLess(RRFScore(vs, bs, s[j]), RRFScore(vs, bs, s[i])) }

\* sorted(rrf_scores.keys(), key=score, reverse=True): the keys come out of a
\* set, so any order in which no score is above the one before it can result.
SortedIds(vs, bs) ==
  LET ids == AllChunkIds(vs, bs)
      n == Cardinality(ids)
  IN  { s \in [1..n -> ids] :
          /\ \A i, j \in 1..n : i # j => s[i] # s[j]
          /\ \A i, j \in 1..n :
               i < j => ~FracLess(RRFScore(vs, bs, s[i]), RRFScore(vs, bs, s[j])) }

\* chunk.score = rrf_scores[chunk_id] on a chunk of an input list: the chunks
\* of chunk_map are the objects of the lists, so the lists see the new score.
Rescored(list, vs, bs) ==
  [ i \in 1..Len(list) |->
      IF ChunkMap(vs, bs, list[i].chunk_id) = list[i]
      THEN [ list[i] EXCEPT !.score = RRFScore(vs, bs, list[i].chunk_id) ]
      ELSE list[i] ]

\* reciprocal_rank_fusion, lines 391-432.
Fuse ==
  /\ pc = "fuse"
  /\ \E sorted_ids \in SortedIds(vector_results, bm25_results) :
        fused_results' =
          [ i \in 1..Len(sorted_ids) |->
              [ ChunkMap(vector_results, bm25_results, sorted_ids[i])
                  EXCEPT !.score = RRFScore(vector_results, bm25_results, sorted_ids[i]) ] ]
  /\ vector_results' = Rescored(vector_results, vector_results, bm25_results)
  /\ bm25_results' = Rescored(bm25_results, vector_results, bm25_results)
  /\ pc' = "fused"
  /\ UNCHANGED << chunkVars, svcVars, argVars, vectorCallVars, scroll_filter, error,
                  query, bm25_documents, points, top_k, retrieval_top_k,
                  use_hybrid, bm25_scores, results, scroll_calls, score_calls >>

\* retrieve returning the fused results as they are.
ReturnFusedUncut ==
  /\ pc = "fused"
  /\ results' = fused_results
  /\ pc' = "returned"
  /\ UNCHANGED << chunkVars, svcVars, argVars, vectorCallVars, scroll_filter, error,
                  query, bm25_documents, points, top_k, retrieval_top_k,
                  use_hybrid, vector_results, bm25_scores, bm25_results, fused_results,
                  scroll_calls, score_calls >>

\* retrieve, lines 493-507: the fused results are cut to top_k and returned.
ReturnFused ==
  /\ pc = "fused"
  /\ results' = Prefix(fused_results, top_k)
  /\ pc' = "returned"
  /\ UNCHANGED << chunkVars, svcVars, argVars, vectorCallVars, scroll_filter, error,
                  query, bm25_documents, points, top_k, retrieval_top_k,
                  use_hybrid, vector_results, bm25_scores, bm25_results, fused_results,
                  scroll_calls, score_calls >>

NextRetrieve ==
  \/ VectorSearch
  \/ EmbeddingFails
  \/ SearchFails
  \/ ReturnVectorOnly
  \/ ScrollNoPoints
  \/ ScrollPoints
  \/ ScrollFails
  \/ ScoreEmptyQuery
  \/ ScoreDocuments
  \/ KeepPositive
  \/ Fuse
  \/ ReturnFused

\* Payloads of the points: one word, two words, no content.
PointPayloads == { [ content |-> Words(<< "a" >>) ], [ content |-> Words(<< "a", "b" >>) ], NoPayload }

\* The collections of at most n points; the id of a point is its position.
Collections(n) ==
  UNION { { [ i \in 1..k |-> Point(i, ps[i]) ] : ps \in [1..k -> PointPayloads] } : k \in 0..n }

\* Queries: no token, one term, two terms, one term twice.
RetrieveQueries == { << "." >>, << "a" >>, << "B", Blank, "a" >>, << "a", ".", "a" >> }

\* SpecRetrieve: one call of retrieve on every collection of at most MaxDocs
\* points, with both result sizes up to MaxTopK.
InitRetrieve ==
  \E q \in RetrieveQueries, ps \in Collections(MaxDocs), k \in 0..MaxTopK,
     rk \in 1..MaxTopK, hybrid \in BOOLEAN :
     /\ ChunkerAt(None, <<>>, "retrieve")
     /\ RetrieverIs([ IdleRetriever EXCEPT !.query = q, !.points = ps, !.top_k = k,
                                           !.retrieval_top_k = rk, !.use_hybrid = hybrid ])

SpecRetrieve == InitRetrieve /\ [][NextRetrieve]_vars

\* Payloads with a chapter and a section.
FilterPayloads ==
  { [ content |-> Words(<< "a" >>), chapter |-> ch, section |-> sec ] :
      ch \in { "ch1", "ch2" }, sec \in { "s1", "s2" } }

FilterCollections(n) ==
  UNION { { [ i \in 1..k |-> Point(i, ps[i]) ] : ps \in [1..k -> FilterPayloads] } : k \in 0..n }

\* SpecFilters: one call of retrieve with chapter and section filters, given,
\* empty or None, on every collection of at most MaxDocs points with chapters
\* and sections.
InitFilters ==
  \E q \in { << "." >>, << "a" >> }, ps \in FilterCollections(MaxDocs),
     chapter \in { NoString, Some(""), Some("ch1"), Some("ch2") },
     section \in { NoString, Some("s1"), Some("s2") },
     rk \in 1..MaxTopK, hybrid \in BOOLEAN :
     /\ ChunkerAt(None, <<>>, "retrieve")
     /\ RetrieverIs([ IdleRetriever EXCEPT !.query = q, !.points = ps, !.top_k = MaxTopK,
                                           !.retrieval_top_k = rk, !.use_hybrid = hybrid,
                                           !.chapter_filter = chapter,
                                           !.section_filter = section ])

SpecFilters == InitFilters /\ [][NextRetrieve]_vars

\* _store_in_qdrant, lines 233-250: the payload of the point of a chunk.
StoredPayload(chunk) ==
  [ text |-> chunk.text, chapter |-> chunk.metadata.chapter,
    section |-> chunk.metadata.section ]

\* _store_in_qdrant, lines 204-275: one point per chunk, each with an id of
\* its own, upserted into the collection.
StoreInQdrant ==
  /\ pc = "store"
  /\ points' = [ i \in 1..Len(stored_chunks) |-> Point(i, StoredPayload(stored_chunks[i])) ]
  /\ pc' = "retrieve"
  /\ UNCHANGED << chunkVars, svcVars, argVars, vectorCallVars, scroll_filter, error,
                  query, bm25_documents, top_k, retrieval_top_k, use_hybrid,
                  vector_results, bm25_scores, bm25_results, fused_results, results,
                  scroll_calls, score_calls >>

NextStored == StoreInQdrant \/ NextRetrieve

\* The chunks the ingestion pipeline stores: a text of one or two words, with
\* its chapter and section.
StoredChunks ==
  { [ text |-> Words(ws), metadata |-> [ chapter |-> ch, section |-> "s1" ] ] :
      ws \in { << "a" >>, << "a", "b" >> }, ch \in { "ch1", "ch2" } }

\* SpecStored: the pipeline stores at most MaxDocs chunks, then retrieve is
\* called once on the collection.
InitStored ==
  \E q \in { << "." >>, << "a" >> },
     cs \in UNION { [1..k -> StoredChunks] : k \in 0..MaxDocs },
     chapter \in { NoString, Some("ch1") }, hybrid \in BOOLEAN :
     /\ ChunkerAt(None, <<>>, "store")
     /\ RetrieverIs([ IdleRetriever EXCEPT !.query = q, !.stored_chunks = cs,
                                           !.top_k = MaxTopK, !.retrieval_top_k = MaxTopK,
                                           !.use_hybrid = hybrid, !.chapter_filter = chapter ])

SpecStored == InitStored /\ [][NextStored]_vars

\* The ranked lists of at most n chunks with distinct ids.
ChunkIds == { "A", "B", "C", "D" }
RankedIds(n) ==
  UNION { { s \in [1..k -> ChunkIds] : \A i, j \in 1..k : i # j => s[i] # s[j] } : k \in 0..n }

\* Vector results carry similarities, BM25 results positive BM25 scores.
VectorList(ids) == [ i \in 1..Len(ids) |-> RetrievedChunk(ids[i], << >>, Similarity(i)) ]
BM25List(ids) == [ i \in 1..Len(ids) |-> RetrievedChunk(ids[i], << >>, Scale - i) ]

\* SpecRRF: reciprocal_rank_fusion on every two lists of at most MaxRank chunks.
InitRRF ==
  \E vs \in RankedIds(MaxRank), bs \in RankedIds(MaxRank) :
     /\ ChunkerAt(None, <<>>, "fuse")
     /\ RetrieverIs([ IdleRetriever EXCEPT !.vector_results = VectorList(vs),
                                           !.bm25_results = BM25List(bs) ])

NextRRF == Fuse

SpecRRF == InitRRF /\ [][NextRRF]_vars

\* --------------------------------------------------------------- embeddings
\* The embedding the provider computes for a text, and the one a cache file
\* written before the call holds for it.
ProviderEmbedding(text) == << "provider", text >>
CachedEmbedding(text) == << "cached", text >>

\* EmbeddingCache.get, lines 57-80: the cached embedding, found or not.
CacheHas(c, text) == \E e \in c : e[1] = text
CacheGet(c, text) == (CHOOSE e \in c : e[1] = text)[2]

\* EmbeddingCache.set, lines 82-103: the cache file of the text is rewritten.
CacheSet(c, text, embedding) == { e \in c : e[1] # text } \cup { << text, embedding >> }

\* client.embeddings.create: one embedding per input, in the order of the inputs.
ProviderEmbeddings(batch) == [ i \in 1..Len(batch) |-> ProviderEmbedding(batch[i]) ]

\* The pairs as they were appended.
Unsorted(pairs) == pairs

\* embeddings.sort(key=lambda x: x[0]): ascending and stable.
SortByIndex(pairs) ==
  LET n == Len(pairs)
      place(i) == Cardinality({ j \in 1..n : pairs[j][1] < pairs[i][1] })
                  + Cardinality({ j \in 1..(i - 1) : pairs[j][1] = pairs[i][1] }) + 1
  IN  [ r \in 1..n |-> pairs[CHOOSE i \in 1..n : place(i) = r] ]

\* if self.cache: cached = self.cache.get(...); if cached is not None
IsHit(text) == use_cache /\ CacheHas(cache, text)

\* generate_embeddings_batch, lines 220-240: the cache is asked for every
\* text; hits go to embeddings with their index, misses to uncached_indices.
CheckCache ==
  /\ pc = "embed_batch"
  /\ LET hits == SelectSeq([ i \in 1..Len(texts) |-> i - 1 ], LAMBDA i : IsHit(texts[i + 1]))
         misses == SelectSeq([ i \in 1..Len(texts) |-> i - 1 ], LAMBDA i : ~IsHit(texts[i + 1]))
     IN  /\ embeddings' = [ h \in 1..Len(hits) |-> << hits[h], CacheGet(cache, texts[hits[h] + 1]) >> ]
         /\ uncached_indices' = misses
  /\ batch_start' = 0
  /\ pc' = "batches"
  /\ UNCHANGED << chunkVars, retrVars, retryVars, histVars, limiterVars, chatVars,
                  texts, batch_size, use_cache, cache, embedding_list >>

\* cache.set for every text of a batch, in order.
RECURSIVE CacheSetAll(_, _, _)
CacheSetAll(c, batch, batch_embeddings) ==
  IF batch = << >> THEN c
  ELSE CacheSetAll(CacheSet(c, Head(batch), Head(batch_embeddings)),
                   Tail(batch), Tail(batch_embeddings))

\* generate_embeddings_batch, lines 234-250: one batch of uncached texts is
\* embedded; each embedding is stored with its original index and cached.
GenerateBatch ==
  /\ pc = "batches"
  /\ batch_start < Len(uncached_indices)
  /\ LET batch_end == IF batch_start + batch_size < Len(uncached_indices)
                      THEN batch_start + batch_size ELSE Len(uncached_indices)
         batch_texts == [ i \in 1..(batch_end - batch_start) |->
                            texts[uncached_indices[batch_start + i] + 1] ]
         batch_embeddings == ProviderEmbeddings(batch_texts)
     IN  /\ embeddings' = embeddings \o
               [ i \in 1..Len(batch_embeddings) |->
                   << uncached_indices[batch_start + i], batch_embeddings[i] >> ]
         /\ cache' = IF use_cache THEN CacheSetAll(cache, batch_texts, batch_embeddings)
                     ELSE cache
  /\ batch_start' = batch_start + batch_size
  /\ UNCHANGED << chunkVars, retrVars, retryVars, histVars, limiterVars, chatVars,
                  texts, batch_size, use_cache, uncached_indices, embedding_list, pc >>

\* generate_embeddings_batch, line 247: _generate_with_retry raises.
GenerateBatchFails ==
  /\ pc = "batches"
  /\ batch_start < Len(uncached_indices)
  /\ pc' = "raised"
  /\ UNCHANGED << chunkVars, retrVars, svcVars >>

\* generate_embeddings_batch, lines 252-256: sort by original index, return
\* the embeddings.
ReturnEmbeddings ==
  /\ pc = "batches"
  /\ batch_start >= Len(uncached_indices)
  /\ LET sorted == SortByIndex(embeddings)
     IN  /\ embeddings' = sorted
         /\ embedding_list' = [ i \in 1..Len(sorted) |-> sorted[i][2] ]
  /\ pc' = "returned"
  /\ UNCHANGED << chunkVars, retrVars, retryVars, histVars, limiterVars, chatVars,
                  texts, batch_size, use_cache, cache, uncached_indices, batch_start >>

NextEmbed == CheckCache \/ GenerateBatch \/ GenerateBatchFails \/ ReturnEmbeddings

TextPool == { "t1", "t2" }
TextLists(n) == UNION { [1..k -> TextPool] : k \in 0..n }

\* The retrieval service and every service but the named one are idle.
OnlyEmbedder ==
  RetrieverFields(IdleRetriever) /\ RetryIdle /\ HistoryIdle /\ LimiterIdle /\ ChatIdle

\* SpecEmbed: generate_embeddings_batch on every list of at most MaxTexts
\* texts, every batch size up to MaxBatch and every set of cached texts.
InitEmbed ==
  \E ts \in TextLists(MaxTexts), size \in 1..MaxBatch, cached \in SUBSET TextPool,
     caching \in BOOLEAN :
     /\ ChunkerAt(None, <<>>, "embed_batch")
     /\ OnlyEmbedder
     /\ texts = ts /\ batch_size = size /\ use_cache = caching
     /\ cache = { << text, CachedEmbedding(text) >> : text \in cached }
     /\ uncached_indices = << >> /\ embeddings = << >> /\ batch_start = 0
     /\ embedding_list = << >>

SpecEmbed == InitEmbed /\ [][NextEmbed]_vars

\* -------------------------------------------------------------------- retry
\* A wait of one second whatever the attempt.
WaitTimeConstant(n) == 1

\* wait_time = 2 ** attempt
RECURSIVE WaitTime(_)
WaitTime(n) == IF n = 0 THEN 1 ELSE 2 * WaitTime(n - 1)

\* The frame of one iteration of the retry loop.
RetryFrame ==
  UNCHANGED << chunkVars, retrVars, histVars, limiterVars, chatVars,
               texts, batch_size, use_cache, cache, uncached_indices, embeddings,
               batch_start, max_retries >>

\* _generate_with_retry, lines 272-283: the provider answers; the embeddings
\* are returned.
ProviderReturns ==
  /\ pc = "retry"
  /\ attempt < max_retries
  /\ provider_log' = Append(provider_log, "ok")
  /\ embedding_list' = ProviderEmbeddings(texts)
  /\ pc' = "returned"
  /\ UNCHANGED << attempt, waits >>
  /\ RetryFrame

\* The handlers of RateLimitError and APIError, lines 285-306: sleep and go to
\* the next attempt, or raise on the last one.
RetryOrRaise(kind) ==
  /\ pc = "retry"
  /\ attempt < max_retries
  /\ provider_log' = Append(provider_log, kind)
  /\ IF attempt < max_retries - 1
     THEN /\ waits' = Append(waits, WaitTime(attempt))
          /\ attempt' = attempt + 1
          /\ pc' = pc
     ELSE /\ pc' = "raised"
          /\ UNCHANGED << attempt, waits >>
  /\ UNCHANGED embedding_list
  /\ RetryFrame

\* _generate_with_retry, lines 285-294: the provider raises RateLimitError.
RateLimited == RetryOrRaise("RateLimitError")

\* _generate_with_retry, lines 296-306: the provider raises another APIError.
APIErrorRaised == RetryOrRaise("APIError")

\* _generate_with_retry, lines 308-310: any other exception is raised at once.
UnexpectedError ==
  /\ pc = "retry"
  /\ attempt < max_retries
  /\ provider_log' = Append(provider_log, "Exception")
  /\ pc' = "raised"
  /\ UNCHANGED << attempt, waits, embedding_list >>
  /\ RetryFrame

\* _generate_with_retry, line 312: the loop ends without an attempt.
NoAttemptLeft ==
  /\ pc = "retry"
  /\ attempt >= max_retries
  /\ pc' = "raised"
  /\ UNCHANGED << attempt, waits, embedding_list, provider_log >>
  /\ RetryFrame

NextRetry ==
  \/ ProviderReturns
  \/ RateLimited
  \/ APIErrorRaised
  \/ UnexpectedError
  \/ NoAttemptLeft

\* SpecRetry: _generate_with_retry on every list of one to MaxTexts texts with
\* max_retries up to MaxRetries. The loop is sequential code: a provider call
\* and a sleep return, so an iteration that can run does run.
InitRetry ==
  \E ts \in TextLists(MaxTexts) \ { << >> }, retries \in 0..MaxRetries :
     /\ ChunkerAt(None, <<>>, "retry")
     /\ RetrieverFields(IdleRetriever) /\ HistoryIdle /\ LimiterIdle /\ ChatIdle
     /\ texts = ts /\ batch_size = 1 /\ use_cache = FALSE /\ cache = {}
     /\ uncached_indices = << >> /\ embeddings = << >> /\ batch_start = 0
     /\ embedding_list = << >>
     /\ max_retries = retries /\ attempt = 0 /\ provider_log = << >> /\ waits = << >>

SpecRetry == InitRetry /\ [][NextRetry]_vars /\ WF_vars(NextRetry)

\* ------------------------------------------------------ conversation history
\* The conversation of the chat request.
ThisConversation == "c1"

\* db.query(Message).filter(conversation_id == conversation.id)
\*   .order_by(created_at.asc()).limit(max_messages).all()
OldestMessages(messages, conversation_id, limit) ==
  Prefix(SelectSeq(messages, LAMBDA m : m.conversation_id = conversation_id), limit)

\* get_conversation_history, lines 203-228: the rows as (role, content) tuples.
GetConversationHistory ==
  /\ pc = "history"
  /\ LET rows == OldestMessages(db_messages, ThisConversation, max_messages)
     IN  history' = [ i \in 1..Len(rows) |-> << rows[i].role, rows[i].content >> ]
  /\ pc' = "build"
  /\ UNCHANGED << chunkVars, retrVars, embVars, retryVars, limiterVars, chatVars,
                  db_messages, max_messages, max_history, conversation >>

\* build_conversation_history, lines 162-189: the recent messages as
\* ConversationMessage objects.
BuildConversationHistory ==
  /\ pc = "build"
  /\ LET recent_messages == IF Len(history) > max_history
                            THEN SliceLast(history, max_history) ELSE history
     IN  conversation' = [ i \in 1..Len(recent_messages) |->
                             [ role |-> recent_messages[i][1],
                               content |-> recent_messages[i][2] ] ]
  /\ pc' = "returned"
  /\ UNCHANGED << chunkVars, retrVars, embVars, retryVars, limiterVars, chatVars,
                  db_messages, max_messages, history, max_history >>

NextHistory == GetConversationHistory \/ BuildConversationHistory

\* The tables of at most n messages, of this and of another conversation; the
\* content of a message is its number, its place in the table its created_at.
MessageTables(n) ==
  UNION { { [ i \in 1..k |-> [ conversation_id |-> ms[i][1], role |-> ms[i][2],
                                content |-> << "m", i >> ] ] :
            ms \in [1..k -> { "c1", "c2" } \X { "user", "assistant" }] } : k \in 0..n }

\* SpecHistory: the history of a conversation is read with a limit of 1 to
\* MaxMessages and handed to build_conversation_history with a max_history of
\* 0 to MaxMessages.
InitHistory ==
  \E ms \in MessageTables(MaxMessages), limit \in 1..MaxMessages, recent \in 0..MaxMessages :
     /\ ChunkerAt(None, <<>>, "history")
     /\ RetrieverFields(IdleRetriever) /\ EmbedderIdle /\ RetryIdle /\ LimiterIdle /\ ChatIdle
     /\ db_messages = ms /\ max_messages = limit /\ max_history = recent
     /\ history = << >> /\ conversation = << >>

SpecHistory == InitHistory /\ [][NextHistory]_vars

\* ------------------------------------------------------------- rate limiter
Sessions == { "s1", "s2" }

\* self.requests[session_id] of the defaultdict: [] for a session without key.
RequestsOf(session) == IF session \in DOMAIN requests THEN requests[session] ELSE << >>

\* requests with the key of the session set to the timestamps.
WithRequests(session, timestamps) ==
  [ s \in DOMAIN requests \cup { session } |->
      IF s = session THEN timestamps ELSE requests[s] ]

\* The frame of a step of the rate limiter.
LimiterFrame ==
  UNCHANGED << chunkVars, retrVars, embVars, retryVars, histVars, chatVars, pc,
               max_requests, window_seconds >>

\* is_allowed that records the request also when it is denied.
IsAllowedRecordingDenied(session) ==
  /\ pc = "serve"
  /\ Len(decisions) < MaxCalls
  /\ LET window_start == now - window_seconds
         recent == SelectSeq(RequestsOf(session), LAMBDA ts : ts > window_start)
         allowed == Len(recent) < max_requests
     IN  /\ requests' = WithRequests(session, Append(recent, now))
         /\ decisions' = Append(decisions,
                                [ session |-> session, time |-> now, allowed |-> allowed ])
  /\ UNCHANGED now
  /\ LimiterFrame

\* RateLimiter.is_allowed, lines 49-80: the timestamps of the session outside
\* the window are dropped; under the limit the request is recorded and allowed.
IsAllowed(session) ==
  /\ pc = "serve"
  /\ Len(decisions) < MaxCalls
  /\ LET window_start == now - window_seconds
         recent == SelectSeq(RequestsOf(session), LAMBDA ts : ts > window_start)
         allowed == Len(recent) < max_requests
     IN  /\ requests' = WithRequests(session, IF allowed THEN Append(recent, now) ELSE recent)
         /\ decisions' = Append(decisions,
                                [ session |-> session, time |-> now, allowed |-> allowed ])
  /\ UNCHANGED now
  /\ LimiterFrame

\* RateLimiter.cleanup_old_sessions, lines 82-97: the sessions without a
\* timestamp in the last two windows lose their key.
CleanupOldSessions ==
  /\ pc = "serve"
  /\ LET cutoff == now - (window_seconds * 2)
         sessions_to_remove ==
           { s \in DOMAIN requests : \A i \in 1..Len(requests[s]) : requests[s][i] < cutoff }
     IN  /\ sessions_to_remove # {}
         /\ requests' = [ s \in DOMAIN requests \ sessions_to_remove |-> requests[s] ]
  /\ UNCHANGED << now, decisions >>
  /\ LimiterFrame

\* datetime.utcnow() moves on.
Tick ==
  /\ pc = "serve"
  /\ now < MaxTime
  /\ now' = now + 1
  /\ UNCHANGED << requests, decisions >>
  /\ LimiterFrame

NextLimiter ==
  \/ \E session \in Sessions : IsAllowed(session)
  \/ CleanupOldSessions
  \/ Tick

\* SpecLimiter: a rate limiter with max_requests up to MaxRequests and a
\* window of 1 to MaxWindow seconds serves at most MaxCalls calls of two
\* sessions while the clock goes from 0 to MaxTime.
InitLimiter ==
  \E limit \in 0..MaxRequests, window \in 1..MaxWindow :
     /\ ChunkerAt(None, <<>>, "serve")
     /\ RetrieverFields(IdleRetriever) /\ EmbedderIdle /\ RetryIdle /\ HistoryIdle /\ ChatIdle
     /\ max_requests = limit /\ window_seconds = window
     /\ requests = << >> /\ now = 0 /\ decisions = << >>

SpecLimiter == InitLimiter /\ [][NextLimiter]_vars

\* --------------------------------------------------------------------- chat
\* The events of the stream.
TokenEvent == [ type |-> "token", error |-> "none" ]
CitationEvent == [ type |-> "citation", error |-> "none" ]
DoneEvent == [ type |-> "done", error |-> "none" ]
ErrorEvent(name) == [ type |-> "error", error |-> name ]

\* The exceptions stream_response tells apart, by the name it reports.
StreamErrors == { "RateLimitError", "TimeoutError", "OpenAIError", "InternalError" }

ChatFrame == UNCHANGED << chunkVars, retrVars, embVars, retryVars, histVars, limiterVars >>

\* event_generator, lines 311-316: process_query returns messages and chunks.
ProcessQuery ==
  /\ pc = "rag"
  /\ pc' = "create"
  /\ UNCHANGED << events, db_state, llm >>
  /\ ChatFrame

\* event_generator, lines 311-316 and 377-390: process_query raises; the
\* handler sends an error event and rolls the database session back.
ProcessQueryFails ==
  /\ pc = "rag"
  /\ events' = Append(events, ErrorEvent("InternalError"))
  /\ db_state' = [ status |-> "rolled_back", user_saved |-> FALSE, assistant_saved |-> FALSE ]
  /\ pc' = "closed"
  /\ UNCHANGED llm
  /\ ChatFrame

\* stream_response, lines 170-176: the completion stream is created.
CreateStream ==
  /\ pc = "create"
  /\ pc' = "tokens"
  /\ UNCHANGED << events, db_state, llm >>
  /\ ChatFrame

\* stream_response, lines 179-192, event_generator, lines 320-343: a token of
\* the provider is yielded and sent.
StreamToken ==
  /\ pc = "tokens"
  /\ llm.tokens > 0
  /\ events' = Append(events, TokenEvent)
  /\ llm' = [ llm EXCEPT !.tokens = @ - 1 ]
  /\ UNCHANGED << db_state, pc >>
  /\ ChatFrame

\* stream_response, lines 194-204: the stream is over; the citations are
\* extracted.
ExtractCitations ==
  /\ pc = "tokens"
  /\ llm.tokens = 0
  /\ pc' = "citations"
  /\ UNCHANGED << events, db_state, llm >>
  /\ ChatFrame

\* stream_response, lines 206-215, event_generator, lines 320-343: a citation
\* is yielded and sent.
StreamCitation ==
  /\ pc = "citations"
  /\ llm.citations > 0
  /\ events' = Append(events, CitationEvent)
  /\ llm' = [ llm EXCEPT !.citations = @ - 1 ]
  /\ UNCHANGED << db_state, pc >>
  /\ ChatFrame

\* stream_response, lines 217-219: the response is kept and the stream ends.
StreamEnds ==
  /\ pc = "citations"
  /\ llm.citations = 0
  /\ pc' = "save"
  /\ UNCHANGED << events, db_state, llm >>
  /\ ChatFrame

\* stream_response, lines 221-261, event_generator, lines 320-343: creating or
\* reading the stream raises; the handler of stream_response yields an error
\* event, which is sent, and raises the exception again.
StreamRaises ==
  /\ pc \in { "create", "tokens" }
  /\ \E name \in StreamErrors :
        /\ events' = Append(events, ErrorEvent(name))
        /\ llm' = [ llm EXCEPT !.raising = name ]
  /\ pc' = "raising"
  /\ UNCHANGED db_state
  /\ ChatFrame

\* event_generator, lines 377-390: the exception of stream_response reaches
\* the handler, which sends an error event and rolls the database session back.
HandleStreamException ==
  /\ pc = "raising"
  /\ events' = Append(events, ErrorEvent("InternalError"))
  /\ db_state' = [ status |-> "rolled_back", user_saved |-> FALSE, assistant_saved |-> FALSE ]
  /\ pc' = "closed"
  /\ UNCHANGED llm
  /\ ChatFrame

\* event_generator, lines 345-356: the assistant message is saved.
SaveAssistantMessage ==
  /\ pc = "save"
  /\ db_state' = [ db_state EXCEPT !.assistant_saved = TRUE ]
  /\ pc' = "commit"
  /\ UNCHANGED << events, llm >>
  /\ ChatFrame

\* event_generator, line 359: db.commit().
Commit ==
  /\ pc = "commit"
  /\ db_state' = [ db_state EXCEPT !.status = "committed" ]
  /\ pc' = "send_done"
  /\ UNCHANGED << events, llm >>
  /\ ChatFrame

\* event_generator, lines 345-359 and 377-390: saving or committing raises;
\* the handler sends an error event and rolls the database session back.
DatabaseFails ==
  /\ pc \in { "save", "commit" }
  /\ events' = Append(events, ErrorEvent("InternalError"))
  /\ db_state' = [ status |-> "rolled_back", user_saved |-> FALSE, assistant_saved |-> FALSE ]
  /\ pc' = "closed"
  /\ UNCHANGED llm
  /\ ChatFrame

\* event_generator, lines 361-366: the done event is sent.
SendDone ==
  /\ pc = "send_done"
  /\ events' = Append(events, DoneEvent)
  /\ pc' = "closed"
  /\ UNCHANGED << db_state, llm >>
  /\ ChatFrame

NextChat ==
  \/ ProcessQuery
  \/ ProcessQueryFails
  \/ CreateStream
  \/ StreamToken
  \/ ExtractCitations
  \/ StreamCitation
  \/ StreamEnds
  \/ StreamRaises
  \/ HandleStreamException
  \/ SaveAssistantMessage
  \/ Commit
  \/ DatabaseFails
  \/ SendDone

\* SpecChat: the event stream of one chat request whose user message is saved;
\* the provider has at most MaxTokens tokens and the response cites at most
\* MaxCitations chunks.
InitChat ==
  \E tokens \in 0..MaxTokens, citations \in 0..MaxCitations :
     /\ ChunkerAt(None, <<>>, "rag")
     /\ RetrieverFields(IdleRetriever) /\ EmbedderIdle /\ RetryIdle /\ HistoryIdle
     /\ LimiterIdle
     /\ events = << >>
     /\ db_state = [ status |-> "open", user_saved |-> TRUE, assistant_saved |-> FALSE ]
     /\ llm = [ tokens |-> tokens, citations |-> citations, raising |-> "none" ]

SpecChat == InitChat /\ [][NextChat]_vars

\* ------------------------------------------------------------------ claims
\* Inside a chunk_document call, chunks holds the chunks of the sections
\* 1..sec_i-1 of the current document.
InCall == pc \in {"sections", "paras"}
Completed == 1..(sec_i - 1)

ChunksOf(cs, ls) == SelectSeq(cs, LAMBDA c : c.line_start = ls)
SectionChunks(k) == ChunksOf(chunks, CurDoc.sections[k].line_start)
Oversized(sec) == count_tokens(sec.content) > chunker.max_chunk_size

\* C1 as stated: with overlap_size < min_chunk_size < max_chunk_size every
\* chunk has a token count within [min_chunk_size, max_chunk_size], except
\* the last chunk of a section whose body exceeds max_chunk_size.  (Chunks
\* with empty text, the subject of C5, are set aside.)
C1_TokenCountWithinBounds ==
  (InCall /\ IsValidCfg(chunker)) =>
    \A k \in Completed :
      LET sec == CurDoc.sections[k]
          cs == SectionChunks(k)
      IN  \A i \in 1..Len(cs) :
            \/ cs[i].text = <<>>
            \/ Oversized(sec) /\ i = Len(cs)
            \/ /\ cs[i].token_count >= chunker.min_chunk_size
               /\ cs[i].token_count <= chunker.max_chunk_size

FittingChunkWithinMax ==
  (InCall /\ IsValidCfg(chunker)) =>
    \A k \in Completed :
      LET cs == SectionChunks(k)
      IN  ~Oversized(CurDoc.sections[k]) =>
            \A i \in 1..Len(cs) : cs[i].token_count <= chunker.max_chunk_size

ClosedOnlyAtMinimum ==
  (IsValidCfg(chunker) /\ pc' = "paras" /\ Len(section_chunks') > Len(section_chunks)) =>
     current_tokens >= chunker.min_chunk_size

\* C1 amended: with overlap_size < min_chunk_size < max_chunk_size, the chunk
\* of a section that fits has at most max_chunk_size tokens (it may have fewer
\* than min_chunk_size), and a chunk of an oversized section is closed before
\* the section's last chunk only when the running token count has reached
\* min_chunk_size (its recomputed token count may exceed max_chunk_size).
C1_TokenCountAmended == [] FittingChunkWithinMax /\ [][ClosedOnlyAtMinimum]_vars

\* An oversized section was split and a chunk before its last exceeds the maximum.
C1_Witness ==
  /\ InCall /\ IsValidCfg(chunker)
  /\ \E k \in Completed :
       LET cs == SectionChunks(k)
       IN  /\ Oversized(CurDoc.sections[k])
           /\ Len(cs) >= 2
           /\ cs[1].token_count > chunker.max_chunk_size

\* ---- paragraphs of a body, read off its tokens: a whitespace token with two
\* or more newlines separates paragraphs; blank paragraphs do not count.
IsBlankLine(tok) == Cardinality({ i \in 1..Len(tok) : tok[i] = NL }) >= 2

RECURSIVE ParagraphsOfTokens(_, _)
ParagraphsOfTokens(toks, cur) ==
  IF toks = <<>> THEN (IF Strip(cur) = <<>> THEN <<>> ELSE << Strip(cur) >>)
  ELSE IF IsBlankLine(Head(toks))
       THEN (IF Strip(cur) = <<>> THEN <<>> ELSE << Strip(cur) >>)
            \o ParagraphsOfTokens(Tail(toks), <<>>)
       ELSE ParagraphsOfTokens(Tail(toks), cur \o Head(toks))

BodyParagraphs(body) == ParagraphsOfTokens(Encode(body), <<>>)

\* The non-empty suffixes of a text.
Suffixes(t) == { SubSeq(t, i, Len(t)) : i \in 1..Len(t) }

\* The texts obtained from the continuation chunks cs by removing from each a
\* prefix that is a tail of the chunk before it and taking what remains,
\* "\n\n" and a run of the next paragraphs of ps, so that ps is used up.
RECURSIVE RestWithoutOverlap(_, _, _)
RestWithoutOverlap(cs, ps, prev) ==
  IF cs = <<>> THEN (IF ps = <<>> THEN { <<>> } ELSE {})
  ELSE UNION {
         IF \E frag \in Suffixes(prev) :
               cs[1].text = frag \o Sep \o JoinParas(SubSeq(ps, 1, k))
         THEN { Sep \o JoinParas(SubSeq(ps, 1, k)) \o r :
                  r \in RestWithoutOverlap(Tail(cs), SubSeq(ps, k + 1, Len(ps)), cs[1].text) }
         ELSE {} : k \in 1..Len(ps) }

\* The reconstructions of a section from its chunks cs, given its paragraphs.
WithoutOverlap(cs, ps) ==
  IF cs = <<>> THEN (IF ps = <<>> THEN { <<>> } ELSE {})
  ELSE UNION {
         IF cs[1].text = JoinParas(SubSeq(ps, 1, k))
         THEN { cs[1].text \o r :
                  r \in RestWithoutOverlap(Tail(cs), SubSeq(ps, k + 1, Len(ps)), cs[1].text) }
         ELSE {} : k \in 1..Len(ps) }

Reconstructions(k) ==
  LET sec == CurDoc.sections[k]
  IN  IF Oversized(sec) THEN WithoutOverlap(SectionChunks(k), BodyParagraphs(sec.content))
      ELSE { Flatten([ i \in 1..Len(SectionChunks(k)) |-> SectionChunks(k)[i].text ]) }

\* C2 as stated: the chunk texts without their overlap fragments, concatenated
\* in emission order, are the section body.  (Stated for the bodies the parser
\* delivers, which are stripped.)
C2_ReconstructsBody ==
  (InCall /\ IsValidCfg(chunker)) =>
    \A k \in Completed :
      LET body == CurDoc.sections[k].content
      IN  body = Strip(body) => body \in Reconstructions(k)

\* C2 amended: the chunk texts without their overlap fragments, concatenated
\* in emission order, are the section body when the section fits, and for an
\* oversized section its non-empty paragraphs, stripped, in their order, each
\* once, joined by "\n\n" (the whitespace between paragraphs and around the
\* body is not kept).
C2_ReconstructsParagraphs ==
  (InCall /\ IsValidCfg(chunker)) =>
    \A k \in Completed :
      LET sec == CurDoc.sections[k]
      IN  Reconstructions(k) =
            { IF Oversized(sec) THEN JoinParas(BodyParagraphs(sec.content)) ELSE sec.content }

\* An oversized section of three or more paragraphs was split into chunks.
C2_Witness ==
  /\ InCall /\ IsValidCfg(chunker)
  /\ \E k \in Completed :
       /\ Oversized(CurDoc.sections[k])
       /\ Len(BodyParagraphs(CurDoc.sections[k].content)) >= 3
       /\ Len(SectionChunks(k)) >= 2

\* A step that closes a chunk inside an oversized section and seeds the next buffer.
ClosesChunk == pc = "paras" /\ pc' = "paras" /\ Len(section_chunks') = Len(section_chunks) + 1

\* The last n tokens of a token list.
LastTokens(tokens, n) ==
  IF n >= Len(tokens) THEN tokens ELSE SubSeq(tokens, Len(tokens) - n + 1, Len(tokens))

\* C4: with 0 <= overlap_size < min_chunk_size, the fragment that seeds a new
\* buffer is the last overlap_size tokens of the buffer just closed, so it has
\* at most overlap_size tokens (none when overlap_size = 0).
C4_OverlapIsLastTokens ==
  [][ (IsValidCfg(chunker) /\ ClosesChunk) =>
        LET frag == Decode(LastTokens(Encode(current_chunk_text), chunker.overlap_size))
        IN  /\ count_tokens(frag) <= chunker.overlap_size
            /\ current_chunk_text' = frag \o Sep \o paragraphs[para_i] ]_vars

\* The runs of consecutive paragraphs of ps, joined as the buffer joins them.
ParagraphRuns(ps) ==
  { JoinParas(SubSeq(ps, a, b)) : a \in 1..Len(ps), b \in 1..Len(ps) } \ { <<>> }

\* C3: a chunk with chunk index n >= 1 begins with a fragment taken from the
\* tail of the chunk with index n - 1 of the same section, followed by "\n\n"
\* and paragraphs of its own section; the chunk with index 0 of a section
\* holds text of its own section only, from its first paragraph on (no
\* overlap, nothing left over from a section or document chunked before).
C3_OverlapWithinSection ==
  InCall =>
    \A k \in Completed :
      LET sec == CurDoc.sections[k]
          cs == SectionChunks(k)
          ps == BodyParagraphs(sec.content)
      IN  \A i \in 1..Len(cs) :
            IF cs[i].chunk_index = 0
            THEN IF Oversized(sec)
                 THEN \E b \in 1..Len(ps) : cs[i].text = JoinParas(SubSeq(ps, 1, b))
                 ELSE cs[i].text = sec.content
            ELSE \E j \in 1..Len(cs) :
                   /\ cs[j].chunk_index = cs[i].chunk_index - 1
                   /\ \E frag \in Suffixes(cs[j].text), run \in ParagraphRuns(ps) :
                         cs[i].text = frag \o Sep \o run

\* In a later call on the same chunker, an oversized section was split and
\* the section after it was split into a chunk 0 and a continuation chunk.
C3_Witness ==
  /\ InCall /\ doc_i >= 2
  /\ 2 \in Completed
  /\ Oversized(CurDoc.sections[1])
  /\ Len(SectionChunks(2)) >= 2
  /\ SectionChunks(2)[2].chunk_index = 1

\* C5: chunk_document never emits a chunk whose text is empty.
C5_NoEmptyChunk ==
  \A i \in 1..Len(chunks) : chunks[i].text # <<>>

\* C6: a chunker with min_chunk_size >= max_chunk_size or with
\* overlap_size >= min_chunk_size is never constructed.
C6_InvalidBoundsRejected ==
  pc # "new" => IsValidCfg(chunker)

\* C7: chunk_documents does not return normally when chunking one of the
\* supplied documents failed.
C7_FailurePropagates ==
  pc = "done" => \A i \in 1..Len(returned) : ~returned[i].raised

\* A step of chunk_document that processes the current section.
ProcessesSection == pc = "sections" /\ pc' = "sections" /\ sec_i' = sec_i + 1

\* The heading path the section k of ss belongs under: the headings of the
\* sections up to k that no later section up to k matches or undercuts in level.
AncestorPath(ss, k) ==
  LET idx == { j \in 1..k : \A m \in (j + 1)..k : ss[m].level > ss[j].level }
      nth(n) == CHOOSE j \in idx : Cardinality({ i \in idx : i < j }) = n - 1
  IN  [ n \in 1..Cardinality(idx) |-> ss[nth(n)].heading ]

HeadingStackOrdered ==
  (pc = "sections" /\ sec_i > 1) =>
    LET last == CurDoc.sections[sec_i - 1]
    IN  /\ \A i \in 1..(Len(heading_stack) - 1) : heading_stack[i][1] < heading_stack[i + 1][1]
        /\ heading_stack[Len(heading_stack)] = << last.level, last.heading >>
        /\ \A k \in Completed :
             \A i \in 1..Len(SectionChunks(k)) :
               SectionChunks(k)[i].heading_path = AncestorPath(CurDoc.sections, k)

PopsTrailingThenAppends ==
  ProcessesSection =>
    LET L == CurSection.level
    IN  \E n \in 0..Len(heading_stack) :
          /\ \A i \in 1..n : heading_stack[i][1] < L
          /\ \A i \in (n + 1)..Len(heading_stack) : heading_stack[i][1] >= L
          /\ heading_stack' = Append(SubSeq(heading_stack, 1, n), << L, CurSection.heading >>)

\* C8: after any sequence of sections the heading stack is strictly increasing
\* in level, its last entry is the current section's (level, heading), an
\* update with a section of level L removes exactly the trailing entries of
\* level >= L and appends, and every chunk keeps the heading path of the stack
\* as it was for its own section, whatever sections follow.
C8_HeadingStack == [] HeadingStackOrdered /\ [][PopsTrailingThenAppends]_vars

\* Sections of levels 1, 2, 1 were processed: the third replaced both entries.
C8_Witness ==
  /\ pc = "sections" /\ sec_i = 4
  /\ CurDoc.sections[1].level = 1
  /\ CurDoc.sections[2].level = 2
  /\ CurDoc.sections[3].level = 1
  /\ Len(chunks) = 3
  /\ Len(chunks[2].heading_path) = 2

\* C9: chunk_document is deterministic: the same document chunked again on the
\* same chunker, directly or after another document, has the same outcome,
\* chunk for chunk (text, token count, heading path, index, metadata).
C9_Deterministic ==
  pc = "done" =>
    \A i, j \in 1..Len(documents) :
      documents[i] = documents[j] => returned[i] = returned[j]

\* A two-section document with a split section was chunked, then another
\* document, then the first document again.
C9_Witness ==
  /\ pc = "done" /\ Len(documents) = 3
  /\ Len(documents[3].sections) = 2
  /\ documents[3].sections[2].level < documents[3].sections[1].level
  /\ ~returned[3].raised
  /\ Len(returned[3].chunks) >= 3

\* C10: a section whose body has at most max_chunk_size tokens yields exactly
\* one chunk, of index 0, whose text is the whole body and whose heading path
\* is the current heading path; the chunk indices of every section's chunks
\* are 0, 1, 2, ... in emission order.
C10_SingleChunkAndIndices ==
  InCall =>
    \A k \in Completed :
      LET sec == CurDoc.sections[k]
          cs == SectionChunks(k)
      IN  /\ ~Oversized(sec) =>
                /\ Len(cs) = 1
                /\ cs[1].chunk_index = 0
                /\ cs[1].text = sec.content
                /\ cs[1].heading_path = AncestorPath(CurDoc.sections, k)
          /\ \A i \in 1..Len(cs) : cs[i].chunk_index = i - 1

\* A section was split into three chunks and the section after it fitted.
C10_Witness ==
  /\ InCall /\ 2 \in Completed
  /\ Len(SectionChunks(1)) >= 3
  /\ ~Oversized(CurDoc.sections[2])
  /\ Len(SectionChunks(2)) = 1

\* The paragraph p stands whole in the text t, between paragraph boundaries.
HoldsParagraph(t, p) ==
  \E i \in 1..(Len(t) - Len(p) + 1) :
    LET e == i + Len(p) - 1
    IN  /\ SubSeq(t, i, e) = p
        /\ i = 1 \/ (i >= 3 /\ SubSeq(t, i - 2, i - 1) = Sep)
        /\ e = Len(t) \/ (e + 2 <= Len(t) /\ SubSeq(t, e + 1, e + 2) = Sep)

\* C11: a section whose body is one paragraph of more than max_chunk_size
\* tokens yields exactly one chunk, which is that paragraph; and every
\* paragraph of more than max_chunk_size tokens, wherever it stands in its
\* section, stands whole in one of the section's chunks.
C11_OversizedParagraphWhole ==
  (InCall /\ IsValidCfg(chunker)) =>
    \A k \in Completed :
      LET cs == SectionChunks(k)
          ps == BodyParagraphs(CurDoc.sections[k].content)
          big(j) == count_tokens(ps[j]) > chunker.max_chunk_size
      IN  /\ (Len(ps) = 1 /\ big(1)) => (Len(cs) = 1 /\ cs[1].text = ps[1])
          /\ \A j \in 1..Len(ps) :
               big(j) => \E i \in 1..Len(cs) : HoldsParagraph(cs[i].text, ps[j])

\* A section was split whose second of three paragraphs alone exceeds the maximum.
C11_Witness ==
  /\ InCall /\ IsValidCfg(chunker)
  /\ \E k \in Completed :
       LET ps == BodyParagraphs(CurDoc.sections[k].content)
       IN  /\ Len(ps) = 3
           /\ count_tokens(ps[2]) > chunker.max_chunk_size
           /\ Len(SectionChunks(k)) >= 2

\* The scenario's outcome: one chunk of 300 tokens for the first section, three
\* chunks for the second, the second of them starting with the last
\* overlap_size tokens of the first and "\n\n".
ScenarioChunks ==
  LET c1 == ChunksOf(all_chunks, 1)
      c2 == ChunksOf(all_chunks, 2)
  IN  /\ Len(c1) = 1 /\ c1[1].token_count = 300
      /\ Len(c2) = 3
      /\ LET frag == Decode(LastTokens(Encode(c2[1].text), chunker.overlap_size)) \o Sep
         IN  /\ count_tokens(frag) = chunker.overlap_size + 1
             /\ Len(c2[2].text) >= Len(frag)
             /\ SubSeq(c2[2].text, 1, Len(frag)) = frag

SeparatorCount(t) ==
  Cardinality({ i \in 1..Len(Encode(t)) : IsSpace(Encode(t)[i][1]) })

NoTokenQuery == \A i \in 1..Len(query) : query[i] \in {Blank, "."}

\* C13: on a non-empty corpus, a query without tokens (empty, blank,
\* punctuation) gets one entry per document, with score 0, in corpus order.
C13_EmptyQueryZeroScores ==
  (pc = "scored" /\ bm25_documents # <<>> /\ NoTokenQuery) =>
    /\ Len(bm25_scores) = Len(bm25_documents)
    /\ \A i \in 1..Len(bm25_documents) :
         bm25_scores[i] = << bm25_documents[i][1], 0 >>

\* A query of punctuation and a blank was scored against three documents.
C13_Witness ==
  /\ pc = "scored"
  /\ Len(bm25_documents) = 3
  /\ Len(query) >= 2 /\ NoTokenQuery
  /\ Len(bm25_scores) = 3

\* Position of the document with the given id in the corpus.
CorpusPosition(id) == CHOOSE i \in 1..Len(bm25_documents) : bm25_documents[i][1] = id

\* C14: the ranking has exactly one entry per document of the corpus (none
\* for an empty corpus), scores do not increase along it, and documents with
\* equal scores stand in corpus order.
C14_RankingSortedStable ==
  pc = "scored" =>
    /\ Len(bm25_scores) = Len(bm25_documents)
    /\ \A i \in 1..Len(bm25_documents) :
         Cardinality({ r \in 1..Len(bm25_scores) : bm25_scores[r][1] = bm25_documents[i][1] }) = 1
    /\ \A r \in 1..(Len(bm25_scores) - 1) :
         /\ bm25_scores[r][2] >= bm25_scores[r + 1][2]
         /\ bm25_scores[r][2] = bm25_scores[r + 1][2] =>
              CorpusPosition(bm25_scores[r][1]) < CorpusPosition(bm25_scores[r + 1][1])

\* The third document of three ranks first, the two before it tie with a
\* positive score.
C14_Witness ==
  /\ pc = "scored"
  /\ Len(bm25_scores) = 3
  /\ bm25_scores[1][1] = 3
  /\ bm25_scores[2][2] = bm25_scores[3][2]
  /\ bm25_scores[2][2] > 0

\* The document of the given id contains a term of the query.
HasQueryTerm(id) ==
  \E j \in 1..Len(tokenize(query)) :
    Count(tokenize(query)[j], tokenize(bm25_documents[CorpusPosition(id)][2])) > 0

\* C15: every BM25 score is non-negative; it is 0 for a document with none
\* of the query terms and positive for a document with one or more.
C15_ScoresNonNegative ==
  pc = "scored" =>
    \A r \in 1..Len(bm25_scores) :
      /\ bm25_scores[r][2] >= 0
      /\ bm25_scores[r][2] > 0 <=> HasQueryTerm(bm25_scores[r][1])

\* bm25_search has returned: its list is bm25_results, the scores of the
\* fetched batch are bm25_scores.
LexicalDone == pc = "fuse" /\ use_hybrid
KeptIds == { bm25_results[i].chunk_id : i \in 1..Len(bm25_results) }

\* C16: bm25_search returns at most retrieval_top_k chunks, each with a score
\* above zero, in non-increasing score order, each a document of the fetched
\* batch with its BM25 score, and no document with a positive score is left
\* out while the list has room or holds a lower score.
C16_LexicalKeepsHighestPositive ==
  LexicalDone =>
    /\ Len(bm25_results) <= retrieval_top_k
    /\ \A i \in 1..Len(bm25_results) : bm25_results[i].score > 0
    /\ \A i, j \in 1..Len(bm25_results) :
         i < j => /\ bm25_results[i].score >= bm25_results[j].score
                  /\ bm25_results[i].chunk_id # bm25_results[j].chunk_id
    /\ \A i \in 1..Len(bm25_results) :
         \E j \in 1..Len(bm25_scores) :
            bm25_scores[j] = << bm25_results[i].chunk_id, bm25_results[i].score >>
    /\ \A j \in 1..Len(bm25_scores) :
         (bm25_scores[j][2] > 0 /\ bm25_scores[j][1] \notin KeptIds) =>
            /\ Len(bm25_results) = retrieval_top_k
            /\ \A i \in 1..Len(bm25_results) : bm25_results[i].score >= bm25_scores[j][2]

\* A batch with a document of score zero and more documents of positive score
\* than retrieval_top_k: the list is full and a positive score is left out.
C16_Witness ==
  /\ LexicalDone
  /\ Len(bm25_results) = retrieval_top_k
  /\ \E j \in 1..Len(bm25_scores) : bm25_scores[j][2] = 0
  /\ \E j \in 1..Len(bm25_scores) :
        bm25_scores[j][2] > 0 /\ bm25_scores[j][1] \notin KeptIds

\* C17: without hybrid search, retrieve returns the first top_k vector results
\* as the vector search gave them, and neither scrolls the collection nor
\* scores a document.
C17_VectorOnlySkipsLexical ==
  ~use_hybrid =>
    /\ scroll_calls = 0
    /\ score_calls = 0
    /\ bm25_results = << >>
    /\ pc = "returned" =>
         /\ Len(results) = (IF top_k < Len(vector_results) THEN top_k ELSE Len(vector_results))
         /\ \A i \in 1..Len(results) : results[i] = vector_results[i]

\* A call without hybrid search that cuts the vector results.
C17_Witness ==
  /\ pc = "returned"
  /\ ~use_hybrid
  /\ results # << >>
  /\ Len(results) < Len(vector_results)

\* reciprocal_rank_fusion has returned fused_results for the lists whose ids
\* vector_results and bm25_results still hold.
Fused == pc = "fused"
VectorIds == ChunkIdsOf(vector_results)
BM25Ids == ChunkIdsOf(bm25_results)
PositionIn(list, id) == (CHOOSE i \in 1..Len(list) : list[i].chunk_id = id) - 1
InOneListOnly(id) == (id \in VectorIds) # (id \in BM25Ids)

\* C18: the fused score of an id is the sum, over the lists that contain it,
\* of 1/(k + its position counted from zero); an id first in both lists has
\* 2/k and stands before every id of one list only.
C18_ScoreIsSumOfReciprocalRanks ==
  Fused =>
    \A i \in 1..Len(fused_results) :
      LET id == fused_results[i].chunk_id
          score == fused_results[i].score
      IN  /\ (id \in VectorIds /\ id \notin BM25Ids) =>
                FracEq(score, << 1, RRF_K + PositionIn(vector_results, id) >>)
          /\ (id \notin VectorIds /\ id \in BM25Ids) =>
                FracEq(score, << 1, RRF_K + PositionIn(bm25_results, id) >>)
          /\ (id \in VectorIds /\ id \in BM25Ids) =>
                LET v == RRF_K + PositionIn(vector_results, id)
                    b == RRF_K + PositionIn(bm25_results, id)
                IN  /\ FracEq(score, << v + b, v * b >>)
                    /\ (v = RRF_K /\ b = RRF_K) =>
                          /\ FracEq(score, << 2, RRF_K >>)
                          /\ \A j \in 1..Len(fused_results) :
                                InOneListOnly(fused_results[j].chunk_id) => i < j

\* Lists with the same first id, another shared id and an id of one list only.
C18_Witness ==
  /\ Fused
  /\ vector_results # << >> /\ bm25_results # << >>
  /\ vector_results[1].chunk_id = bm25_results[1].chunk_id
  /\ \E id \in VectorIds \cap BM25Ids : PositionIn(vector_results, id) # PositionIn(bm25_results, id)
  /\ \E id \in VectorIds \cup BM25Ids : InOneListOnly(id)

\* C19: the fused list holds every id of either list once and no other id;
\* two lists without a common id give as many entries as both have together.
C19_FusedIdsAreTheUnion ==
  Fused =>
    /\ \A id \in VectorIds \cup BM25Ids :
          Cardinality({ i \in 1..Len(fused_results) : fused_results[i].chunk_id = id }) = 1
    /\ \A i \in 1..Len(fused_results) : fused_results[i].chunk_id \in VectorIds \cup BM25Ids
    /\ (VectorIds \cap BM25Ids = {}) =>
          Len(fused_results) = Len(vector_results) + Len(bm25_results)

\* Two lists without a common id, and an id that is in neither.
C19_Witness ==
  /\ Fused
  /\ Len(vector_results) >= 2 /\ bm25_results # << >>
  /\ VectorIds \cap BM25Ids = {}
  /\ ChunkIds \ (VectorIds \cup BM25Ids) # {}

IdsOf(list) == [ i \in 1..Len(list) |-> list[i].chunk_id ]
ScenarioLists ==
  /\ IdsOf(vector_results) = << "A", "B", "C" >>
  /\ IdsOf(bm25_results) = << "C", "A", "D" >>

\* C20: vector results A, B, C and BM25 results C, A, D fuse, with k = 60, to
\* A, C, B, D with the scores 1/60 + 1/61, 1/62 + 1/60, 1/61 and 1/62.
C20_FusionScenario ==
  (Fused /\ ScenarioLists) =>
    /\ RRF_K = 60
    /\ IdsOf(fused_results) = << "A", "C", "B", "D" >>
    /\ FracEq(fused_results[1].score, << 121, 3660 >>)
    /\ FracEq(fused_results[2].score, << 122, 3720 >>)
    /\ FracEq(fused_results[3].score, << 1, 61 >>)
    /\ FracEq(fused_results[4].score, << 1, 62 >>)

C20_Witness == Fused /\ ScenarioLists /\ Len(fused_results) = 4

\* A hybrid call of retrieve has returned.
HybridReturned == pc = "returned" /\ use_hybrid
ReturnedIds == { results[i].chunk_id : i \in 1..Len(results) }

\* The reciprocal rank value of an id of the two candidate lists.
ReciprocalRankValue(id) ==
  LET v == RRF_K + PositionIn(vector_results, id)
      b == RRF_K + PositionIn(bm25_results, id)
  IN  IF id \in VectorIds /\ id \in BM25Ids THEN << v + b, v * b >>
      ELSE IF id \in VectorIds THEN << 1, v >> ELSE << 1, b >>

\* C21: in hybrid mode retrieve returns at most top_k chunks in non-increasing
\* order of fused score, each with its reciprocal rank value as score, and
\* they are the top_k highest entries of the fused list.
C21_HybridReturnsTopFused ==
  HybridReturned =>
    /\ Len(results) <= top_k
    /\ Len(results) = (IF top_k < Len(fused_results) THEN top_k ELSE Len(fused_results))
    /\ \A i \in 1..Len(results) :
         /\ results[i].chunk_id \in VectorIds \cup BM25Ids
         /\ FracEq(results[i].score, ReciprocalRankValue(results[i].chunk_id))
         /\ \E j \in 1..Len(fused_results) : fused_results[j] = results[i]
    /\ \A i, j \in 1..Len(results) :
         i < j => /\ ~FracLess(results[i].score, results[j].score)
                  /\ results[i].chunk_id # results[j].chunk_id
    /\ \A j \in 1..Len(fused_results) :
         fused_results[j].chunk_id \notin ReturnedIds =>
           \A i \in 1..Len(results) : ~FracLess(results[i].score, fused_results[j].score)

\* A hybrid call that cuts the fused list and returns a chunk of both lists.
C21_Witness ==
  /\ HybridReturned
  /\ results # << >>
  /\ Len(results) < Len(fused_results)
  /\ \E i \in 1..Len(results) : results[i].chunk_id \in VectorIds \cap BM25Ids
  /\ \E j \in 1..Len(fused_results) : fused_results[j].chunk_id \notin BM25Ids

\* The points the caller of retrieve asked for: those of the chapter and of the
\* section given; None and the empty string ask for every chapter or section.
Asked(filter) == filter # NoString /\ filter # Some("")
InUniverse(p) ==
  /\ Asked(chapter_filter) =>
        ("chapter" \in DOMAIN p.payload /\ p.payload.chapter = chapter_filter[1])
  /\ Asked(section_filter) =>
        ("section" \in DOMAIN p.payload /\ p.payload.section = section_filter[1])
UniverseIds == { points[i].id : i \in { j \in 1..Len(points) : InUniverse(points[j]) } }
AllInUniverse(list) == \A i \in 1..Len(list) : list[i].chunk_id \in UniverseIds

\* C22: in a hybrid call the search and the scroll get the same chapter and
\* section conditions, the lexical path scores exactly the points of the
\* filtered universe, and no chunk of either path or of the result is outside it.
C22_SameFiltersBothPaths ==
  use_hybrid =>
    /\ AllInUniverse(vector_results)
    /\ AllInUniverse(bm25_results)
    /\ AllInUniverse(fused_results)
    /\ AllInUniverse(results)
    /\ scroll_calls > 0 =>
         /\ search_filter = scroll_filter
         /\ Len(scroll_filter) = (IF Asked(chapter_filter) THEN 1 ELSE 0)
                                 + (IF Asked(section_filter) THEN 1 ELSE 0)
         /\ error = "none" =>
              { bm25_documents[i][1] : i \in 1..Len(bm25_documents) } = UniverseIds

\* A hybrid call with both filters that returns chunks while the collection
\* has points of another chapter and points of another section.
C22_Witness ==
  /\ HybridReturned
  /\ Asked(chapter_filter) /\ Asked(section_filter)
  /\ results # << >>
  /\ bm25_results # << >>
  /\ \E i \in 1..Len(points) : points[i].payload.chapter # chapter_filter[1]
  /\ \E i \in 1..Len(points) :
        /\ points[i].payload.chapter = chapter_filter[1]
        /\ points[i].payload.section # section_filter[1]

\* C23: when the embedding call, the search or the scroll fails, retrieve
\* raises that error and returns nothing: the path that did succeed is not
\* returned, no other path is tried in its place, and no call is made twice.
C23_FailureFailsWholeCall ==
  /\ embed_calls <= 1 /\ search_calls <= 1 /\ scroll_calls <= 1
  /\ pc = "returned" => error = "none"
  /\ error # "none" =>
       /\ pc = "raised"
       /\ results = << >>
       /\ fused_results = << >>
       /\ score_calls = 0
  /\ error = "embedding" => (search_calls = 0 /\ scroll_calls = 0)
  /\ error = "search" => (vector_results = << >> /\ scroll_calls = 0)
  /\ error = "scroll" => (use_hybrid /\ bm25_results = << >>)

\* The scroll fails after the vector search found chunks.
C23_Witness ==
  /\ error = "scroll"
  /\ pc = "raised"
  /\ vector_results # << >>
  /\ top_k > 0

\* The text of the stored chunk whose point has the id.
StoredText(id) == stored_chunks[id].text
ContentIsStoredText(list) ==
  \A i \in 1..Len(list) : list[i].content = StoredText(list[i].chunk_id)

\* C24: the chunk retrieve builds for a point the pipeline stored has the text
\* of the stored chunk as content, and the lexical path scores that text.
C24_RetrievedContentIsStoredText ==
  /\ ContentIsStoredText(vector_results)
  /\ ContentIsStoredText(bm25_results)
  /\ ContentIsStoredText(results)
  /\ \A i \in 1..Len(bm25_documents) :
        bm25_documents[i][2] = StoredText(bm25_documents[i][1])

\* C25: generate_embeddings_batch returns one embedding per text, the i-th
\* being that of the i-th text: the cached one on a hit, the provider's on a
\* miss.
C25_BatchKeepsOrder ==
  pc = "returned" =>
    /\ Len(embedding_list) = Len(texts)
    /\ \A i \in 1..Len(texts) :
         embedding_list[i] =
           IF use_cache /\ << texts[i], CachedEmbedding(texts[i]) >> \in cache
           THEN CachedEmbedding(texts[i])
           ELSE ProviderEmbedding(texts[i])

\* A call with a hit between two misses of different texts, embedded in more
\* than one batch.
C25_Witness ==
  /\ pc = "returned"
  /\ Len(texts) >= 3
  /\ embedding_list[1] = ProviderEmbedding(texts[1])
  /\ embedding_list[2] = CachedEmbedding(texts[2])
  /\ embedding_list[3] = ProviderEmbedding(texts[3])
  /\ batch_size < Len(uncached_indices)

Retryable(kind) == kind \in { "RateLimitError", "APIError" }
RetryEnded == pc \in { "returned", "raised" }

\* The provider calls of one invocation so far, against the rules of the loop.
RetryWithinRules ==
  LET calls == Len(provider_log)
  IN  /\ calls <= max_retries
      /\ \A i \in 1..calls :
           /\ provider_log[i] = "ok" => (i = calls /\ pc = "returned")
           /\ provider_log[i] = "Exception" => (i = calls /\ pc = "raised")
           /\ (Retryable(provider_log[i]) /\ i = max_retries) => (i = calls /\ pc = "raised")
           /\ (Retryable(provider_log[i]) /\ i < max_retries) =>
                (Len(waits) >= i /\ waits[i] = 2 ^ (i - 1))
      /\ Len(waits) = Cardinality({ i \in 1..calls : Retryable(provider_log[i]) /\ i < max_retries })
      /\ pc = "returned" =>
           (calls > 0 /\ provider_log[calls] = "ok" /\ embedding_list = ProviderEmbeddings(texts))
      /\ pc = "raised" => (calls = max_retries \/ provider_log[calls] = "Exception")
      /\ ~RetryEnded => calls = attempt

\* C26: _generate_with_retry calls the provider at most max_retries times; a
\* rate limit or API error before the last attempt is followed by a wait of
\* 2^attempt seconds and another call, on the last attempt it is raised; a
\* success returns at once, any other exception is raised at once; and the
\* invocation ends in a return or a raise.
C26_BoundedRetry == []RetryWithinRules /\ <>RetryEnded

\* Two retried failures, then a success on the last attempt.
C26_Witness ==
  /\ pc = "returned"
  /\ max_retries = 3
  /\ provider_log = << "RateLimitError", "APIError", "ok" >>
  /\ waits = << 1, 2 >>

\* C27: build_conversation_history returns at most max_history messages: the
\* last max_history messages of its input, all of them when the input is
\* shorter, in their order and with role and content as given.
C27_HistoryIsLastMessages ==
  pc = "returned" =>
    /\ Len(conversation) <= max_history
    /\ LET expected == LastTokens(history, max_history)
       IN  /\ Len(conversation) = Len(expected)
           /\ \A i \in 1..Len(expected) :
                 /\ conversation[i].role = expected[i][1]
                 /\ conversation[i].content = expected[i][2]

\* The (role, content) tuples of the messages of the conversation, oldest first.
StoredHistory ==
  LET rows == SelectSeq(db_messages, LAMBDA m : m.conversation_id = ThisConversation)
  IN  [ i \in 1..Len(rows) |-> << rows[i].role, rows[i].content >> ]

\* C28: get_conversation_history returns the most recent max_messages
\* messages of the conversation, oldest first, so the history ends with the
\* message stored last.
C28_HistoryIsMostRecent ==
  pc \in { "build", "returned" } =>
    /\ history = LastTokens(StoredHistory, max_messages)
    /\ StoredHistory # << >> => history[Len(history)] = StoredHistory[Len(StoredHistory)]

\* The calls of a session that were allowed in the window_seconds seconds that
\* end at (and include) second t.
AllowedWithin(session, t, upto) ==
  { i \in 1..upto : /\ decisions[i].session = session
                    /\ decisions[i].allowed
                    /\ decisions[i].time > t - window_seconds
                    /\ decisions[i].time <= t }

\* C29: in every window of window_seconds seconds at most max_requests calls
\* of a session are allowed; a call is allowed exactly when fewer than
\* max_requests allowed calls of its own session lie in the window that ends
\* with it, so denied calls and calls of other sessions do not count.
C29_RateLimitPerSession ==
  /\ \A session \in Sessions : \A t \in 0..(MaxTime + MaxWindow) :
        Cardinality(AllowedWithin(session, t, Len(decisions))) <= max_requests
  /\ \A i \in 1..Len(decisions) :
        decisions[i].allowed <=>
          Cardinality(AllowedWithin(decisions[i].session, decisions[i].time, i - 1)) < max_requests

\* A session is allowed, denied, and allowed again when its window has
\* passed, after a call of the other session was allowed in between.
C29_Witness ==
  \E i, j, k, l \in 1..Len(decisions) :
     /\ i < j /\ j < k /\ k < l
     /\ decisions[i].session = "s1" /\ decisions[i].allowed
     /\ decisions[j].session = "s1" /\ ~decisions[j].allowed
     /\ decisions[k].session = "s2" /\ decisions[k].allowed
     /\ decisions[l].session = "s1" /\ decisions[l].allowed
     /\ decisions[j].time > decisions[i].time
     /\ max_requests = 1

EventsOfType(type) == { i \in 1..Len(events) : events[i].type = type }

\* C30: in the events of a chat request the tokens come before the citations
\* and these before the one done event, which is sent only after the assistant
\* message was saved and the transaction committed; a stream with a failure
\* has exactly one error event, no done event, and its database changes are
\* rolled back.
C30_EventOrderAndOutcome ==
  /\ \A i, j \in 1..Len(events) :
        i < j => /\ events[j].type = "token" => events[i].type = "token"
                 /\ events[j].type = "citation" => events[i].type \in { "token", "citation" }
                 /\ events[i].type \notin { "done", "error" }
  /\ EventsOfType("done") # {} =>
        (db_state.status = "committed" /\ db_state.assistant_saved)
  /\ Cardinality(EventsOfType("error")) <= 1
  /\ pc = "closed" =>
        /\ Cardinality(EventsOfType("done")) + Cardinality(EventsOfType("error")) = 1
        /\ EventsOfType("error") # {} => db_state.status = "rolled_back"

================================================================
